---- MODULE Spec2Model ----
(***************************************************************************)
(* Kaizen Blitz: persistence and domain-aggregation layer.                 *)
(*                                                                         *)
(* The model covers the entity rows of the six tables, the single          *)
(* SQLAlchemy session every repository shares (config/database.py:         *)
(* SessionLocal is a scoped_session, so each BaseRepository._get_session   *)
(* returns the same session), the generic repository, the progress         *)
(* aggregator of Project and the view handlers that call them.             *)
(***************************************************************************)
EXTENDS Integers, Naturals, Sequences, FiniteSets, TLC

VARIABLES
    db,        \* committed rows, one set of rows per table
    mem,       \* rows of persistent objects modified in memory and not yet flushed
    nextId,    \* per table, the number of identifiers generated so far
    now,       \* reading of datetime.utcnow
    failed,    \* a flush failed and nothing rolled the session back since
    ret,       \* the last call: its name, its arguments and what it returned
    ui         \* the main window and the tool views

vars == <<db, mem, nextId, now, failed, ret, ui>>

(***************************************************************************)
(* Bounds                                                                  *)
(***************************************************************************)
\* children of the single project of the progress specification
MaxFiveWhys == 50
MaxOtherKind == 1
\* identifiers generated per table, and readings of the clock
MaxRows == 2
MaxTime == 2
\* characters of a stored text, of a string in a list, strings in a list,
\* and characters of the additional_whys read by get_all_whys
MaxBlob == 3
MaxStr == 2
MaxList == 2
MaxWhyBlob == 1

MaxTerm == 2
\* rows of the task table of the action plan view, artifacts created per
\* kind through the views, and saves that write categories or tasks
MaxTasks == 1
MaxArtifacts == 1
MaxSaves == 2
\* the additional why inputs the Five Whys form may hold
MaxInputs == 2

\* None, for identifiers (generated identifiers start at 1)
NoId == 0

\* progress_percentage of a project the wizard creates, and of the first
\* sample project of the seed data
WizardProgress == 0
SeedProgress == 35

\* the number of labels in IshikawaView.CATEGORIES
NumCategories == 6

\* the number of columns why_1..why_5 of FiveWhys
NumWhys == 5

Kinds == {"project", "five_whys", "ishikawa", "category", "plan", "task"}

\* the kinds a Project owns directly (Project.five_whys, .ishikawa_diagrams,
\* .action_plans)
ArtifactKinds == {"five_whys", "ishikawa", "plan"}

EmptyTables == [k \in Kinds |-> {}]

(***************************************************************************)
(* IEEE-754 binary64 arithmetic on bit sequences (most significant bit     *)
(* first).  Python's int / int is the correctly rounded quotient, float *  *)
(* int rounds to nearest, ties to even, and int() truncates.               *)
(***************************************************************************)
MantBits == 53
LimbBits == 10
Base == 1024

RECURSIVE PowMod(_, _)
\* 2^e mod t, by repeated squaring
PowMod(e, t) ==
    IF e = 0 THEN 1 % t
    ELSE LET h == PowMod(e \div 2, t)
         IN (h * h * (IF e % 2 = 1 THEN 2 ELSE 1)) % t

\* the least k >= 1 with c * 2^k >= t, for 0 < c < t
Shift(c, t) == CHOOSE k \in 1..31 : c * (2 ^ k) >= t /\ c * (2 ^ (k - 1)) < t

\* bits + 1; a carry out of the top bit lengthens the sequence by one
Inc(bits) ==
    LET n == Len(bits)
        zeros == {i \in 1..n : bits[i] = 0}
    IN IF zeros = {} THEN [i \in 1..(n + 1) |-> IF i = 1 THEN 1 ELSE 0]
       ELSE LET p == CHOOSE i \in zeros : \A j \in zeros : j <= i
            IN [i \in 1..n |-> IF i < p THEN bits[i] ELSE IF i = p THEN 1 ELSE 0]

\* round a significand of more than MantBits bits to MantBits bits, ties to
\* even; sticky tells whether nonzero bits follow those given.
\* The result carries the number of low bits dropped.
RoundEven(bits, sticky) ==
    LET n == Len(bits)
        top == SubSeq(bits, 1, MantBits)
        guard == IF n > MantBits THEN bits[MantBits + 1] ELSE 0
        tail == sticky \/ (\E i \in (MantBits + 2)..n : bits[i] = 1)
        up == guard = 1 /\ (tail \/ top[MantBits] = 1)
        r == IF up THEN Inc(top) ELSE top
    IN IF Len(r) > MantBits
       THEN [mant |-> SubSeq(r, 1, MantBits), dropped |-> n - MantBits + 1]
       ELSE [mant |-> r, dropped |-> n - MantBits]

\* c / t for 0 < c < t, correctly rounded: the value is mant * 2^(-exp),
\* mant read as an integer.  Quotient bit j of c * 2^k / t (bit 0 is the
\* leading 1) is decided by the remainder of c * 2^(k - 1 + j) by t.
FloatDiv(c, t) ==
    LET k == Shift(c, t)
        q == [j \in 1..(MantBits + 1) |->
                IF 2 * ((c * PowMod(k - 2 + j, t)) % t) >= t THEN 1 ELSE 0]
        r == RoundEven(q, (c * PowMod(k + MantBits, t)) % t # 0)
    IN [mant |-> r.mant, exp |-> k + MantBits - r.dropped]

RECURSIVE BitsToNat(_)
BitsToNat(bits) ==
    IF bits = <<>> THEN 0
    ELSE 2 * BitsToNat(SubSeq(bits, 1, Len(bits) - 1)) + bits[Len(bits)]

\* limb j (0 is the least significant) of a bit sequence
Limb(bits, j) ==
    LET hi == Len(bits) - LimbBits * j
        lo == hi - LimbBits + 1
    IN BitsToNat(SubSeq(bits, IF lo < 1 THEN 1 ELSE lo, hi))

RECURSIVE MulLimbs(_, _, _)
\* limbs (least significant first) times the small constant m, plus carry
MulLimbs(limbs, m, carry) ==
    IF limbs = <<>> THEN <<carry>>
    ELSE LET v == m * Head(limbs) + carry
         IN <<v % Base>> \o MulLimbs(Tail(limbs), m, v \div Base)

\* the bits of the integer with the given limbs, without leading zeros
LimbsToBits(limbs) ==
    LET n == LimbBits * Len(limbs)
        all == [i \in 1..n |->
                   LET pos == n - i
                   IN (limbs[(pos \div LimbBits) + 1] \div (2 ^ (pos % LimbBits))) % 2]
        first == CHOOSE i \in 1..n : all[i] = 1 /\ \A j \in 1..(i - 1) : all[j] = 0
    IN SubSeq(all, first, n)

\* f * m for a small positive integer m
FloatMulSmall(f, m) ==
    LET nl == (MantBits + LimbBits - 1) \div LimbBits
        limbs == [j \in 1..nl |-> Limb(f.mant, j - 1)]
        r == RoundEven(LimbsToBits(MulLimbs(limbs, m, 0)), FALSE)
    IN [mant |-> r.mant, exp |-> f.exp - r.dropped]

\* int(f) for a positive f below 2^31
FloatToInt(f) ==
    LET nb == MantBits - f.exp
    IN IF nb <= 0 THEN 0 ELSE BitsToNat(SubSeq(f.mant, 1, nb))

\* int((completed_count / total_count) * 100), total_count > 0
PercentOf(completed_count, total_count) ==
    IF completed_count = 0 THEN 0
    ELSE IF completed_count = total_count THEN 100
    ELSE FloatToInt(FloatMulSmall(FloatDiv(completed_count, total_count), 100))

(***************************************************************************)
(* Rows.  Every table has the columns of BaseModel; the domain columns     *)
(* kept are those the operations below read or write.                      *)
(***************************************************************************)
ProjectRow(id, created, updated, status, progress) ==
    [id |-> id, created_at |-> created, updated_at |-> updated,
     status |-> status, progress_percentage |-> progress]

\* FiveWhys, IshikawaDiagram and ActionPlan; an ActionPlan has no
\* problem_statement column and carries "" there
ArtifactRow(id, created, updated, project_id, problem, completed) ==
    [id |-> id, created_at |-> created, updated_at |-> updated,
     project_id |-> project_id, problem_statement |-> problem,
     is_completed |-> completed]

\* IshikawaCategory (parent: diagram_id, order: its index) and
\* ActionPlanTask (parent: action_plan_id, order: its table row)
ChildRow(id, created, updated, parent_id, order) ==
    [id |-> id, created_at |-> created, updated_at |-> updated,
     parent_id |-> parent_id, order |-> order]

Ids(rows) == {r.id : r \in rows}

RowOf(rows, id) == CHOOSE r \in rows : r.id = id

(***************************************************************************)
(* The session.  An object loaded in the session shows the committed row   *)
(* unless it was modified in memory; a commit expires every object, so     *)
(* only unflushed modifications are kept apart from the rows.              *)
(***************************************************************************)
\* the attribute values of the persistent objects of table k
CurOf(d, m, k) ==
    {IF r.id \in Ids(m[k]) THEN RowOf(m[k], r.id) ELSE r : r \in d[k]}

Cur(k) == CurOf(db, mem, k)

\* setting attributes of the persistent object with row r's id to r
SetInMemory(m, k, r) ==
    LET others == {x \in m[k] : x.id # r.id}
    IN [m EXCEPT ![k] = IF r \in db[k] THEN others ELSE others \cup {r}]

\* the collection of a relationship of the project: a lazy load by foreign key
Children(k, project_id) == {r \in Cur(k) : r.project_id = project_id}

(***************************************************************************)
(* Serialised list fields: Project.team_members, FiveWhys.additional_whys  *)
(* and IshikawaCategory.causes hold the text json.dumps makes of a list.   *)
(* Text is a sequence of characters; a Python value is a tagged record.    *)
(***************************************************************************)
PyNone == [type |-> "NoneType"]

PyStr(chars) == [type |-> "str", chars |-> chars]

PyInt(n) == [type |-> "int", n |-> n]

PyList(items) == [type |-> "list", items |-> items]

\* the characters text is made of here
Chars == {"[", "]", ",", "\"", "\\", "a", "5", " "}

\* a serialiser that writes the characters of a str as they are
Unescaped(chars) == chars

\* json.dumps of a str: quotes around the characters, with the quote and
\* the backslash escaped (ensure_ascii changes nothing for these characters)
RECURSIVE Escaped(_)
Escaped(chars) ==
    IF chars = <<>> THEN <<>>
    ELSE (IF Head(chars) \in {"\"", "\\"} THEN <<"\\", Head(chars)>>
          ELSE <<Head(chars)>>) \o Escaped(Tail(chars))

\* json.dumps(value) for a str or a list, items separated by ", "
RECURSIVE Dumps(_)
RECURSIVE DumpsItems(_)
DumpsItems(items) ==
    IF items = <<>> THEN <<>>
    ELSE Dumps(Head(items))
         \o (IF Tail(items) = <<>> THEN <<>> ELSE <<",", " ">>)
         \o DumpsItems(Tail(items))

Dumps(value) ==
    IF value.type = "str" THEN <<"\"">> \o Escaped(value.chars) \o <<"\"">>
    ELSE <<"[">> \o DumpsItems(value.items) \o <<"]">>

\* the outcome of a step of the decoder: a value and the position after it,
\* or json.JSONDecodeError
Decoded(value, pos) == [ok |-> TRUE, val |-> value, pos |-> pos]

JSONDecodeError == [ok |-> FALSE, val |-> PyNone, pos |-> 0]

\* the position of the first character at or after i that is not whitespace
SkipWs(s, i) ==
    CHOOSE j \in i..(Len(s) + 1) :
        /\ j = Len(s) + 1 \/ s[j] # " "
        /\ \A m \in i..(j - 1) : s[m] = " "

\* the position after the run of digits that starts at i
DigitsEnd(s, i) ==
    CHOOSE j \in i..(Len(s) + 1) :
        /\ j = Len(s) + 1 \/ s[j] # "5"
        /\ \A m \in i..(j - 1) : s[m] = "5"

\* the number a run of n digits 5 denotes
RECURSIVE Fives(_)
Fives(n) == IF n = 0 THEN 0 ELSE 10 * Fives(n - 1) + 5

\* the body of a JSON string from position i on, acc read so far; of the
\* characters here only the quote and the backslash may follow a backslash
RECURSIVE ScanString(_, _, _)
ScanString(s, i, acc) ==
    IF i > Len(s) THEN JSONDecodeError
    ELSE IF s[i] = "\"" THEN Decoded(PyStr(acc), i + 1)
    ELSE IF s[i] = "\\"
         THEN IF i + 1 <= Len(s) /\ s[i + 1] \in {"\"", "\\"}
              THEN ScanString(s, i + 2, Append(acc, s[i + 1]))
              ELSE JSONDecodeError
    ELSE ScanString(s, i + 1, Append(acc, s[i]))

\* the JSON value that starts at position i, and the items of an array
RECURSIVE ParseValue(_, _)
RECURSIVE ParseItems(_, _, _)
ParseItems(s, i, acc) ==
    LET v == ParseValue(s, i)
        j == SkipWs(s, v.pos)
    IN IF ~v.ok THEN JSONDecodeError
       ELSE IF j > Len(s) THEN JSONDecodeError
       ELSE IF s[j] = "," THEN ParseItems(s, SkipWs(s, j + 1), Append(acc, v.val))
       ELSE IF s[j] = "]" THEN Decoded(PyList(Append(acc, v.val)), j + 1)
       ELSE JSONDecodeError

ParseValue(s, i) ==
    IF i > Len(s) THEN JSONDecodeError
    ELSE IF s[i] = "\"" THEN ScanString(s, i + 1, <<>>)
    ELSE IF s[i] = "5"
         THEN Decoded(PyInt(Fives(DigitsEnd(s, i) - i)), DigitsEnd(s, i))
    ELSE IF s[i] = "["
         THEN IF SkipWs(s, i + 1) <= Len(s) /\ s[SkipWs(s, i + 1)] = "]"
              THEN Decoded(PyList(<<>>), SkipWs(s, i + 1) + 1)
              ELSE ParseItems(s, SkipWs(s, i + 1), <<>>)
    ELSE JSONDecodeError

\* json.loads(s): one value, whitespace around it, nothing after it
Loads(s) ==
    LET v == ParseValue(s, SkipWs(s, 1))
    IN IF v.ok /\ SkipWs(s, v.pos) > Len(s) THEN v ELSE JSONDecodeError

\* bool(value) of a column value, which is None or a str
Truthy(value) == value.type = "str" /\ value.chars # <<>>

\* get_team_members, get_additional_whys, get_causes_list: what they return
\* for the column value blob
GetList(blob) ==
    IF ~Truthy(blob) THEN PyList(<<>>)
    ELSE IF Loads(blob.chars).ok THEN Loads(blob.chars).val
    ELSE PyList(<<>>)

\* set_team_members, set_additional_whys, set_causes_list: the column value
\* they assign
SetList(value) == PyStr(Dumps(value))

\* whys.extend(value): [raised |-> TRUE] stands for the TypeError of a
\* value that cannot be iterated
Extended(whys, value) ==
    IF value.type = "list"
    THEN [raised |-> FALSE, out |-> PyList(whys \o value.items)]
    ELSE IF value.type = "str"
    THEN [raised |-> FALSE,
          out |-> PyList(whys \o [i \in 1..Len(value.chars) |->
                                    PyStr(<<value.chars[i]>>)])]
    ELSE [raised |-> TRUE, out |-> PyNone]

\* FiveWhys.get_all_whys for the values of why_1..why_5 and additional_whys
GetAllWhys(slots, blob) ==
    IF ~Truthy(blob) THEN [raised |-> FALSE, out |-> PyList(SelectSeq(slots, Truthy))]
    ELSE IF Loads(blob.chars).ok
    THEN Extended(SelectSeq(slots, Truthy), Loads(blob.chars).val)
    ELSE [raised |-> FALSE, out |-> PyList(SelectSeq(slots, Truthy))]

\* the kinds with a serialised list, and the column that holds it
BlobKinds == {"project", "five_whys", "category"}

BlobField(k) ==
    IF k = "project" THEN "team_members"
    ELSE IF k = "five_whys" THEN "additional_whys"
    ELSE "causes"

(***************************************************************************)
(* Progress aggregator                                                     *)
(***************************************************************************)
\* the counts of Project.calculate_progress
TotalCount(project_id) ==
    Cardinality(Children("five_whys", project_id))
    + Cardinality(Children("ishikawa", project_id))
    + Cardinality(Children("plan", project_id))

CompletedCount(project_id) ==
    Cardinality({r \in Children("five_whys", project_id) : r.is_completed})
    + Cardinality({r \in Children("ishikawa", project_id) : r.is_completed})
    + Cardinality({r \in Children("plan", project_id) : r.is_completed})

\* what Project.calculate_progress returns
ProgressValue(project_id) ==
    IF TotalCount(project_id) = 0 THEN 0
    ELSE PercentOf(CompletedCount(project_id), TotalCount(project_id))

\* the objects in memory after Project.calculate_progress: the early return
\* for a project without children leaves progress_percentage as it was
ProgressWritten(project_id) ==
    IF TotalCount(project_id) = 0 THEN mem
    ELSE SetInMemory(mem, "project",
            [RowOf(Cur("project"), project_id)
                EXCEPT !.progress_percentage = ProgressValue(project_id)])

NoRet == [op |-> "none", kind |-> "none", id |-> NoId, ok |-> FALSE,
          val |-> 0, rows |-> {}, filters |-> <<>>, raised |-> FALSE,
          out |-> PyNone]

\* project.calculate_progress() on a project loaded in the session
CalculateProgress(project_id) ==
    /\ ~failed
    /\ project_id \in Ids(db["project"])
    /\ ret' = [NoRet EXCEPT !.op = "calculate_progress", !.kind = "project",
                            !.id = project_id, !.ok = TRUE,
                            !.val = ProgressValue(project_id)]
    /\ mem' = ProgressWritten(project_id)
    /\ UNCHANGED <<db, nextId, now, failed, ui>>

(***************************************************************************)
(* The main window and the tool views                                      *)
(***************************************************************************)
\* the main window after construction: the dashboard is shown, no project
\* is selected, and each tool view holds neither project nor artifact
\* and the Five Whys form has its five why inputs and no additional one
\* (why_inputs holds the texts of the additional inputs, those after the
\* fifth); completed_shown tells for each view whether its completion
\* label is visible and its mark-complete button disabled, which the views
\* always set together
UiInit ==
    [page |-> "dashboard", current_project |-> NoId, cards |-> {},
     view |-> [k \in ArtifactKinds |-> [project |-> NoId, artifact |-> NoId]],
     why_inputs |-> <<>>,
     completed_shown |-> [k \in ArtifactKinds |-> FALSE]]

(***************************************************************************)
(* Generic repository (BaseRepository) over the shared session.            *)
(*                                                                         *)
(* An entity handed to create or update is a record of the attributes set  *)
(* on it: an attribute the caller never set is missing from the record,    *)
(* and the column default fills it on INSERT.                              *)
(***************************************************************************)
\* the column defaults applied on INSERT to attributes left unset
Defaults(k) ==
    IF k = "project" THEN [status |-> "In Progress", progress_percentage |-> 0]
    ELSE IF k \in ArtifactKinds THEN [is_completed |-> FALSE]
    ELSE [order |-> 0]

\* the row INSERTed for entity e: id and timestamps from the defaults of
\* BaseModel unless e carries them
InsertedRow(k, e, newId, created, updated) ==
    e @@ [id |-> newId, created_at |-> created, updated_at |-> updated]
      @@ Defaults(k)

\* faulty variant of OnUpdate (the UPDATE stamps both timestamps)
OnUpdateStampsBoth(r, t) == [r EXCEPT !.created_at = t, !.updated_at = t]

\* the value of Column(onupdate=datetime.utcnow) for a row an UPDATE writes
OnUpdate(r, t) == [r EXCEPT !.updated_at = t]

\* the rows after a flush: every object modified in memory is written by
\* an UPDATE, which refreshes updated_at
Flushed(d, m, t) ==
    [k \in Kinds |->
        {IF r.id \in Ids(m[k]) THEN OnUpdate(RowOf(m[k], r.id), t) ELSE r
            : r \in d[k]}]

\* faulty variant of Cascade (the owned artifacts go, what they own stays)
CascadeOneLevel(d, k, id) ==
    [t \in Kinds |->
        IF t = k THEN {r \in d[t] : r.id = id}
        ELSE IF t \in ArtifactKinds
             THEN {r \in d[t] : k = "project" /\ r.project_id = id}
        ELSE {}]

\* the rows session.delete(obj) removes on flush: obj and, through the
\* relationships declared with cascade="all, delete-orphan", what it owns
Cascade(d, k, id) ==
    LET artifacts(pk) == {r \in d[pk] : k = "project" /\ r.project_id = id}
        diagrams == IF k = "ishikawa" THEN {id} ELSE Ids(artifacts("ishikawa"))
        plans == IF k = "plan" THEN {id} ELSE Ids(artifacts("plan"))
    IN [t \in Kinds |->
          IF t = k THEN {r \in d[t] : r.id = id}
          ELSE IF t \in ArtifactKinds THEN artifacts(t)
          ELSE IF t = "category" THEN {r \in d[t] : r.parent_id \in diagrams}
          ELSE IF t = "task" THEN {r \in d[t] : r.parent_id \in plans}
          ELSE {}]

\* faulty variant of AfterQuery (the session flushes before every query and
\* the objects modified in memory reach the rows)
AfterQueryFlushes(d, m, t) == Flushed(d, m, t)

\* the rows after a query of the session: the session is made with
\* autoflush=False, so a query writes nothing, whatever is modified in memory
AfterQuery(d, m, t) == d

Without(d, gone) == [t \in Kinds |-> d[t] \ gone[t]]

Returned(op, k, id, ok, rows) ==
    [NoRet EXCEPT !.op = op, !.kind = k, !.id = id, !.ok = ok, !.rows = rows]

\* get_all(): the objects of every row of the table
GetAllResult(k) == Cur(k)

\* get_by_id(record_id): the object of the row with that id, if any
GetByIdIn(d, m, k, id) == {r \in CurOf(d, m, k) : r.id = id}

GetByIdResult(k, id) == GetByIdIn(db, mem, k, id)

\* hasattr(self.model, key): the columns of the mapped class, and also its
\* methods (BaseModel.to_dict), which are attributes of the class too
Columns(k) ==
    {"id", "created_at", "updated_at"} \cup
    (IF k = "project" THEN {"status", "progress_percentage"}
     ELSE IF k \in ArtifactKinds
          THEN {"project_id", "problem_statement", "is_completed"}
     ELSE {"parent_id", "order"})

Methods(k) == {"to_dict"}

HasAttr(k, key) == key \in Columns(k) \cup Methods(k)

\* whether committed row r passes query.filter(getattr(self.model, key) ==
\* value): a column compares in SQL; a method compared with == is the
\* Python constant False, which filter() takes as the SQL constant false
PassesFilter(k, r, key, value) ==
    IF key \in Columns(k) THEN r[key] = value ELSE FALSE

\* search(**filters): filters is a function from keys to values; the WHERE
\* clause reads the committed rows (autoflush is off), the objects returned
\* are those of the session
SearchResult(k, filters) ==
    LET hit == {r \in db[k] :
                  \A key \in DOMAIN filters :
                      HasAttr(k, key) => PassesFilter(k, r, key, filters[key])}
    IN {r \in Cur(k) : r.id \in Ids(hit)}

RepoGetAll(k) ==
    /\ ~failed
    /\ ret' = Returned("get_all", k, NoId, TRUE, GetAllResult(k))
    /\ db' = AfterQuery(db, mem, now)
    /\ UNCHANGED <<mem, nextId, now, failed, ui>>

RepoGetById(k, id) ==
    /\ ~failed
    /\ ret' = Returned("get_by_id", k, id, GetByIdResult(k, id) # {},
                       GetByIdResult(k, id))
    /\ db' = AfterQuery(db, mem, now)
    /\ UNCHANGED <<mem, nextId, now, failed, ui>>

RepoSearch(k, filters) ==
    /\ ~failed
    /\ ret' = [Returned("search", k, NoId, TRUE, SearchResult(k, filters))
                  EXCEPT !.filters = filters]
    /\ db' = AfterQuery(db, mem, now)
    /\ UNCHANGED <<mem, nextId, now, failed, ui>>

\* the rows after create(obj) commits: session.add, then a commit that
\* flushes the INSERT together with every pending modification
AfterCreate(k, row) ==
    [Flushed(db, mem, now) EXCEPT ![k] = @ \cup {row}]

\* faulty variant of NewId (hands out the identifier generated last)
NewIdRepeats(k) == IF nextId[k] = 0 THEN 1 ELSE nextId[k]

\* the column default of BaseModel.id, str(uuid.uuid4()), evaluated on
\* INSERT: an identifier not generated before
NewId(k) == nextId[k] + 1

\* create(obj) for an entity without id; created_at and updated_at are two
\* readings of the clock, now and later
RepoCreate(k, e, later) ==
    /\ ~failed
    /\ "id" \notin DOMAIN e
    /\ nextId[k] < MaxRows
    /\ later \in {now, now + 1}
    /\ later <= MaxTime
    /\ LET row == InsertedRow(k, e, NewId(k), now, later)
       IN /\ db' = AfterCreate(k, row)
          /\ ret' = Returned("create", k, row.id, TRUE, {row})
    /\ now' = later
    /\ nextId' = [nextId EXCEPT ![k] = @ + 1]
    /\ mem' = EmptyTables
    /\ UNCHANGED <<failed, ui>>

\* Model(**kwargs): the constructor of a declarative class sets the keyword
\* arguments it is given and nothing else (no model defines __init__); a
\* Column(default=...) is evaluated when the row is INSERTed, so until then
\* an attribute that was not given is None (here: absent from the record)
Constructed(k, given) == given

\* a caller constructs an object and reads its attributes; nothing is
\* added to the session
Construct(k, given) ==
    /\ ret' = [Returned("construct", k, NoId, TRUE, {Constructed(k, given)})
                  EXCEPT !.filters = given]
    /\ UNCHANGED <<db, mem, nextId, now, failed, ui>>

\* create(obj) of the object just constructed
CreateConstructed ==
    /\ ret.op = "construct"
    /\ \E obj \in ret.rows : RepoCreate(ret.kind, obj, now)

\* faulty variant of Merged (the attributes never set on obj are copied
\* too, with the values a new object would get)
MergedWithDefaults(k, e) == (e @@ Defaults(k)) @@ RowOf(Cur(k), e.id)

\* the object session.merge(obj) leaves in the session for a row that
\* exists: the attributes set on obj are copied onto the loaded object
Merged(k, e) == e @@ RowOf(Cur(k), e.id)

\* faulty variant of AfterUpdate (an UPDATE only, nothing for a missing row)
AfterUpdateOnly(k, e) ==
    IF e.id \in Ids(db[k])
    THEN Flushed(db, SetInMemory(mem, k, Merged(k, e)), now)
    ELSE Flushed(db, mem, now)

\* the rows after update(obj) commits
AfterUpdate(k, e) ==
    IF e.id \in Ids(db[k])
    THEN Flushed(db, SetInMemory(mem, k, Merged(k, e)), now)
    ELSE [Flushed(db, mem, now) EXCEPT
            ![k] = @ \cup {InsertedRow(k, e, e.id, now, now)}]

\* update(obj): obj is an object of the session whose attributes the caller
\* has just set (e holds its id and those attributes), or an object that is
\* not in the session and carries an id; merge then loads the row or, when
\* there is none, adds a new object that the commit INSERTs
RepoUpdate(k, e) ==
    /\ ~failed
    /\ "id" \in DOMAIN e
    /\ db' = AfterUpdate(k, e)
    /\ ret' = Returned("update", k, e.id, TRUE, {e})
    /\ mem' = EmptyTables
    /\ UNCHANGED <<nextId, now, failed, ui>>

\* faulty variant of AfterDelete (the owned rows go, the row itself stays)
AfterDeleteOwnedOnly(k, id) ==
    Without(Flushed(db, mem, now),
            [Cascade(Flushed(db, mem, now), k, id) EXCEPT ![k] = {}])

\* the rows after delete(record_id) found the row and committed
AfterDelete(k, id) ==
    Without(Flushed(db, mem, now), Cascade(Flushed(db, mem, now), k, id))

\* delete(record_id)
RepoDelete(k, id) ==
    /\ ~failed
    /\ IF GetByIdResult(k, id) # {}
       THEN /\ db' = AfterDelete(k, id)
            /\ mem' = EmptyTables
            /\ ret' = Returned("delete", k, id, TRUE, {})
       ELSE /\ ret' = Returned("delete", k, id, FALSE, {})
            /\ UNCHANGED <<db, mem>>
    /\ UNCHANGED <<nextId, now, failed, ui>>

(***************************************************************************)
(* Queries of ProjectRepository.  The WHERE clause and the ORDER BY read   *)
(* the committed rows; the list returned holds the objects of the session. *)
(***************************************************************************)
ProjectStatus == {"In Progress", "Completed", "On Hold", "Cancelled"}

\* faulty variant of OrderedByUpdated (oldest first)
OrderedByUpdatedAscending(rows) ==
    {s \in [1..Cardinality(rows) -> rows] :
        /\ \A i, j \in DOMAIN s : i # j => s[i] # s[j]
        /\ \A i, j \in DOMAIN s : i < j => s[i].updated_at <= s[j].updated_at}

\* .order_by(Project.updated_at.desc()).all() over the rows selected: the
\* lists the store may return, rows with equal updated_at in any order
OrderedByUpdated(rows) ==
    {s \in [1..Cardinality(rows) -> rows] :
        /\ \A i, j \in DOMAIN s : i # j => s[i] # s[j]
        /\ \A i, j \in DOMAIN s : i < j => s[i].updated_at >= s[j].updated_at}

\* the objects of the session for a list of rows
Objects(s) == [i \in DOMAIN s |-> RowOf(Cur("project"), s[i].id)]

\* a query of the repository that selects the rows hit
ProjectQuery(op, filters, hit) ==
    /\ ~failed
    /\ \E s \in OrderedByUpdated(hit) :
          ret' = [Returned(op, "project", NoId, TRUE, {}) EXCEPT
                     !.filters = filters, !.out = PyList(Objects(s))]
    /\ db' = AfterQuery(db, mem, now)
    /\ UNCHANGED <<mem, nextId, now, failed, ui>>

\* get_by_status(status)
GetByStatus(status) ==
    ProjectQuery("get_by_status", [status |-> status],
                 {r \in db["project"] : r.status = status})

\* get_completed_projects()
GetCompletedProjects ==
    ProjectQuery("get_completed_projects", [status |-> "Completed"],
                 {r \in db["project"] : r.status = "Completed"})

\* get_in_progress_projects()
GetInProgressProjects ==
    ProjectQuery("get_in_progress_projects", [status |-> "In Progress"],
                 {r \in db["project"] : r.status = "In Progress"})

\* lower() of SQL on a character
Lower(c) == IF c = "A" THEN "a" ELSE IF c = "B" THEN "b" ELSE c

\* text LIKE pattern: % stands for any characters, _ for any one character
RECURSIVE Like(_, _)
Like(text, pattern) ==
    IF pattern = <<>> THEN text = <<>>
    ELSE IF Head(pattern) = "%"
    THEN Like(text, Tail(pattern))
         \/ (text # <<>> /\ Like(Tail(text), pattern))
    ELSE /\ text # <<>>
         /\ Head(pattern) = "_" \/ Head(text) = Head(pattern)
         /\ Like(Tail(text), Tail(pattern))

\* column.ilike(pattern): lower(column) LIKE lower(pattern)
ILike(text, pattern) ==
    Like([i \in DOMAIN text |-> Lower(text[i])],
         [i \in DOMAIN pattern |-> Lower(pattern[i])])

\* search_by_name(name): Project.name.ilike(f"%{name}%")
SearchByName(name) ==
    ProjectQuery("search_by_name", [name |-> name],
                 {r \in db["project"] : ILike(r.name, <<"%">> \o name \o <<"%">>)})

\* faulty variant of Limited (the limit is ignored)
Unlimited(s, limit) == s

\* .limit(limit) on an ordered result: the first limit rows; SQLite reads a
\* negative LIMIT as no limit at all
Limited(s, limit) ==
    IF limit < 0 \/ limit >= Len(s) THEN s ELSE SubSeq(s, 1, limit)

\* get_recent_projects(limit)
GetRecentProjects(limit) ==
    /\ ~failed
    /\ \E s \in OrderedByUpdated(db["project"]) :
          ret' = [Returned("get_recent_projects", "project", NoId, TRUE, {})
                     EXCEPT !.filters = [limit |-> limit],
                            !.out = PyList(Objects(Limited(s, limit)))]
    /\ db' = AfterQuery(db, mem, now)
    /\ UNCHANGED <<mem, nextId, now, failed, ui>>

\* get_by_id_with_relations(project_id): the project with that id, if any,
\* with its FiveWhys, Ishikawa diagrams and action plans loaded in the same
\* query (val counts them)
GetByIdWithRelations(project_id) ==
    /\ ~failed
    /\ ret' = [Returned("get_by_id_with_relations", "project", project_id,
                        GetByIdResult("project", project_id) # {},
                        GetByIdResult("project", project_id))
                  EXCEPT !.val = IF project_id \in Ids(db["project"])
                                 THEN TotalCount(project_id) ELSE 0]
    /\ db' = AfterQuery(db, mem, now)
    /\ UNCHANGED <<mem, nextId, now, failed, ui>>

(***************************************************************************)
(* Store failures.  The repository catches nothing and never calls         *)
(* session.rollback(): an exception of the session leaves the method as it *)
(* is raised.  A flush that fails inside commit rolls the transaction back *)
(* in the database, discards the pending changes of the session and leaves *)
(* the session refusing every later call until a rollback.                 *)
(***************************************************************************)
Raised(op, k, id) ==
    [NoRet EXCEPT !.op = op, !.kind = k, !.id = id, !.raised = TRUE]

\* the statements of create(obj) that reach the store
CreateStages == {"commit", "refresh"}

\* create(obj) with a store failure at the given statement: at the commit
\* nothing is written; at session.refresh(obj) the commit before it has
\* already written the row
RepoCreateFails(k, e, at) ==
    /\ ~failed
    /\ "id" \notin DOMAIN e
    /\ nextId[k] < MaxRows
    /\ at \in CreateStages
    /\ IF at = "commit"
       THEN /\ failed' = TRUE
            /\ UNCHANGED <<db, nextId>>
       ELSE /\ db' = AfterCreate(k, InsertedRow(k, e, NewId(k), now, now))
            /\ nextId' = [nextId EXCEPT ![k] = @ + 1]
            /\ UNCHANGED failed
    /\ mem' = EmptyTables
    /\ ret' = Raised("create", k, NoId)
    /\ UNCHANGED <<now, ui>>

\* update(obj) with a store failure at its commit
RepoUpdateFails(k, e) ==
    /\ ~failed
    /\ "id" \in DOMAIN e
    /\ failed' = TRUE
    /\ mem' = EmptyTables
    /\ ret' = Raised("update", k, e.id)
    /\ UNCHANGED <<db, nextId, now, ui>>

\* delete(record_id) with a store failure at its commit
RepoDeleteFails(k, id) ==
    /\ ~failed
    /\ GetByIdResult(k, id) # {}
    /\ failed' = TRUE
    /\ mem' = EmptyTables
    /\ ret' = Raised("delete", k, id)
    /\ UNCHANGED <<db, nextId, now, ui>>

\* any call of a repository on the session after a failed flush
RepoRefused(op, k) ==
    /\ failed
    /\ ret' = Raised(op, k, NoId)
    /\ UNCHANGED <<db, mem, nextId, now, failed, ui>>

\* datetime.utcnow moves on between calls
Tick ==
    /\ now < MaxTime
    /\ now' = now + 1
    /\ UNCHANGED <<db, mem, nextId, failed, ret, ui>>

(***************************************************************************)
(* Handlers of the main window, the dashboard and the three tool views.    *)
(* A view keeps the project it was opened on and the artifact it loaded    *)
(* or created, both as the ids of the objects it holds.                    *)
(***************************************************************************)
\* MainWindow.show_dashboard
ShowDashboard ==
    /\ ui.page # "dashboard"
    /\ ui' = [ui EXCEPT !.page = "dashboard"]
    /\ ret' = NoRet
    /\ UNCHANGED <<db, mem, nextId, now, failed>>

\* view.set_project(project): existing[0] of search(project_id=project.id),
\* a query without ORDER BY, or None when the search finds nothing
Loaded(k, project_id) ==
    IF SearchResult(k, [project_id |-> project_id]) = {} THEN {NoId}
    ELSE Ids(SearchResult(k, [project_id |-> project_id]))

\* the value of the column additional_whys of a FiveWhys: NULL unless a
\* save has set it
AdditionalOf(row) ==
    IF "additional_whys" \in DOMAIN row THEN row.additional_whys ELSE PyNone

\* the texts get_additional_whys returns for a column value that a save of
\* the view has written (a list of str) or that is NULL
StoredWhys(row) ==
    [i \in DOMAIN GetList(AdditionalOf(row)).items |->
        GetList(AdditionalOf(row)).items[i].chars]

\* the additional why inputs of the Five Whys form after set_project, with
\* loaded the artifact found, if any: _load_data adds one input for each
\* stored additional why to the inputs the form has, _clear_form removes
\* every additional input
WhyInputsLoaded(inputs, k, loaded) ==
    IF k # "five_whys" THEN inputs
    ELSE IF loaded = {} THEN <<>>
    ELSE inputs \o StoredWhys(CHOOSE row \in loaded : TRUE)

\* the completion label of a view after set_project, with loaded the
\* artifact found, if any: _load_data shows the label and disables the
\* button for a completed artifact and does nothing for another one;
\* _clear_form (_clear_table) hides the label and enables the button
ShownAfterLoad(shown, loaded) ==
    IF loaded = {} THEN FALSE
    ELSE IF (CHOOSE row \in loaded : TRUE).is_completed THEN TRUE
    ELSE shown

\* show_five_whys, show_ishikawa, show_action_plan with a project selected
OpenView(k, project_id) ==
    /\ ~failed
    /\ \E a \in Loaded(k, project_id) :
          /\ Len(WhyInputsLoaded(ui.why_inputs, k, GetByIdResult(k, a)))
                <= MaxInputs
          /\ ui' = [ui EXCEPT
                      !.page = k, !.current_project = project_id,
                      !.view[k] = [project |-> project_id, artifact |-> a],
                      !.why_inputs =
                          WhyInputsLoaded(@, k, GetByIdResult(k, a)),
                      !.completed_shown[k] =
                          ShownAfterLoad(@, GetByIdResult(k, a))]
    /\ ret' = [Returned("search", k, NoId, TRUE,
                        SearchResult(k, [project_id |-> project_id]))
                  EXCEPT !.filters = [project_id |-> project_id]]
    /\ db' = AfterQuery(db, mem, now)
    /\ UNCHANGED <<mem, nextId, now, failed>>

\* MainWindow._on_project_selected: a card of the dashboard is clicked
SelectProject(project_id) ==
    /\ ui.page = "dashboard"
    /\ project_id \in ui.cards
    /\ OpenView("five_whys", project_id)

\* MainWindow._on_navigation_changed for one of the tools in the sidebar
Navigate(k) ==
    /\ ui.page # k
    /\ IF ui.current_project = NoId
       THEN /\ ui' = [ui EXCEPT !.page = "dashboard"]
            /\ ret' = NoRet
            /\ UNCHANGED <<db, mem, nextId, now, failed>>
       ELSE OpenView(k, ui.current_project)

\* DashboardView._on_project_delete, confirmed: repository.delete, then
\* load_projects
DeleteProject(project_id) ==
    /\ ~failed
    /\ ui.page = "dashboard"
    /\ project_id \in ui.cards
    /\ IF GetByIdResult("project", project_id) # {}
       THEN /\ db' = AfterDelete("project", project_id)
            /\ mem' = EmptyTables
            /\ ret' = Returned("delete", "project", project_id, TRUE, {})
       ELSE /\ ret' = Returned("delete", "project", project_id, FALSE, {})
            /\ UNCHANGED <<db, mem>>
    /\ ui' = [ui EXCEPT !.cards = Ids(db'["project"])]
    /\ UNCHANGED <<nextId, now, failed>>

\* a form text as a faulty strip() would return it (nothing removed)
Untrimmed(chars) == chars

\* str.strip() of a form text: the blanks at both ends are removed
Strip(chars) ==
    LET kept == {i \in 1..Len(chars) : chars[i] # " "}
        first == CHOOSE i \in kept : \A j \in kept : i <= j
        last == CHOOSE i \in kept : \A j \in kept : j <= i
    IN IF kept = {} THEN <<>> ELSE SubSeq(chars, first, last)

\* the validation warning of a save that read text from its form: nothing
\* is written
SaveRejected(k, text) ==
    /\ ret' = [Returned("warning", k, NoId, FALSE, {}) EXCEPT !.out = PyStr(text)]
    /\ UNCHANGED <<db, mem, nextId, now, failed, ui>>

\* the artifact row a save writes first: create for a view without
\* artifact, update for the artifact it holds with the attributes e
ArtifactId(k) ==
    IF ui.view[k].artifact = NoId THEN NewId(k) ELSE ui.view[k].artifact

\* faulty variant of ArtifactSaved (every save creates)
ArtifactCreated(k, e) ==
    AfterCreate(k, InsertedRow(k, [project_id |-> ui.view[k].project] @@ e,
                               NewId(k), now, now))

ArtifactSaved(k, e) ==
    IF ui.view[k].artifact = NoId
    THEN AfterCreate(k, InsertedRow(k, [project_id |-> ui.view[k].project] @@ e,
                                    NewId(k), now, now))
    ELSE AfterUpdate(k, [id |-> ui.view[k].artifact] @@ e)

\* what every save leaves behind apart from the rows; read is what the
\* save read from its form
SaveDoneWith(k, read) ==
    /\ ret' = [Returned(IF ui.view[k].artifact = NoId THEN "create" ELSE "update",
                        k, ArtifactId(k), TRUE, {})
                  EXCEPT !.out = read]
    /\ ui' = [ui EXCEPT !.view[k].artifact = ArtifactId(k)]
    /\ mem' = EmptyTables
    /\ UNCHANGED <<now, failed>>

SaveDone(k, text) == SaveDoneWith(k, PyStr(text))

\* the form gets one more why input with text in it, or loses its last
\* additional input (_add_why and _remove_last_why, from their buttons)
AddWhy(text) ==
    /\ ui.page = "five_whys"
    /\ Len(ui.why_inputs) < MaxInputs
    /\ ui' = [ui EXCEPT !.why_inputs = Append(@, text)]
    /\ ret' = NoRet
    /\ UNCHANGED <<db, mem, nextId, now, failed>>

RemoveLastWhy ==
    /\ ui.page = "five_whys"
    /\ ui.why_inputs # <<>>
    /\ ui' = [ui EXCEPT !.why_inputs = SubSeq(@, 1, Len(@) - 1)]
    /\ ret' = NoRet
    /\ UNCHANGED <<db, mem, nextId, now, failed>>

\* the texts of the inputs that are not blank, stripped, as PyStr
RECURSIVE Additional(_)
Additional(inputs) ==
    IF inputs = <<>> THEN <<>>
    ELSE IF Strip(Head(inputs)) = <<>> THEN Additional(Tail(inputs))
    ELSE <<PyStr(Strip(Head(inputs)))>> \o Additional(Tail(inputs))

\* the attributes FiveWhysView.save sets from the form: additional_whys
\* only when the form has more than five why inputs
FormEntity(text, inputs) ==
    IF inputs = <<>> THEN [problem_statement |-> Strip(text)]
    ELSE [problem_statement |-> Strip(text),
          additional_whys |-> SetList(PyList(Additional(inputs)))]

\* FiveWhysView.save with text in the problem statement field of the form
FiveWhysSave(text) ==
    /\ ~failed
    /\ ui.page = "five_whys"
    /\ IF Strip(text) = <<>> THEN SaveRejected("five_whys", text)
       ELSE /\ ui.view["five_whys"].artifact = NoId
                  => nextId["five_whys"] < MaxArtifacts
            /\ db' = ArtifactSaved("five_whys",
                                   FormEntity(text, ui.why_inputs))
            /\ nextId' = [nextId EXCEPT !["five_whys"] =
                            IF ui.view["five_whys"].artifact = NoId
                            THEN @ + 1 ELSE @]
            /\ SaveDone("five_whys", text)

\* the rows of table k owned by the row with id parent_id
Owned(d, k, parent_id) == {c \in d[k] : c.parent_id = parent_id}

\* faulty variant of Replaced (the old children are kept)
Appended(d, k, parent_id, fresh) == [d EXCEPT ![k] = @ \cup fresh]

\* the rows after the children of a parent are deleted one by one and
\* those of fresh are created one by one, each call with its own commit
Replaced(d, k, parent_id, fresh) ==
    [d EXCEPT ![k] = (@ \ Owned(d, k, parent_id)) \cup fresh]

\* IshikawaView.CATEGORIES, the labels of the categories
CATEGORIES ==
    <<"People", "Process", "Materials", "Equipment", "Environment",
      "Management">>

\* the categories IshikawaView.save creates: one per label, order = index
NewCategories(diagram_id) ==
    {ChildRow(nextId["category"] + i, now, now, diagram_id, i - 1)
        @@ [name |-> CATEGORIES[i]]
        : i \in 1..NumCategories}

\* IshikawaView.save with text in the problem statement field of the form
IshikawaSave(text) ==
    /\ ~failed
    /\ ui.page = "ishikawa"
    /\ IF Strip(text) = <<>> THEN SaveRejected("ishikawa", text)
       ELSE /\ ui.view["ishikawa"].artifact = NoId
                  => nextId["ishikawa"] < MaxArtifacts
            /\ nextId["category"] + NumCategories <= NumCategories * MaxSaves
            /\ db' = Replaced(ArtifactSaved("ishikawa",
                                            [problem_statement |-> Strip(text)]),
                              "category", ArtifactId("ishikawa"),
                              NewCategories(ArtifactId("ishikawa")))
            /\ nextId' = [nextId EXCEPT
                            !["ishikawa"] =
                                IF ui.view["ishikawa"].artifact = NoId
                                THEN @ + 1 ELSE @,
                            !["category"] = @ + NumCategories]
            /\ SaveDone("ishikawa", text)

\* the rows of the task table that have a description, by table row
Described(table) ==
    {i \in 1..Len(table) : Strip(table[i].description) # <<>>}

\* the tasks ActionPlanView.save creates, in table order
NewTasks(plan_id, table) ==
    {ChildRow(nextId["task"] + Cardinality({j \in Described(table) : j <= i}),
              now, now, plan_id, i - 1)
        @@ [task_description |-> Strip(table[i].description),
            status |-> table[i].status,
            priority |-> table[i].priority,
            completed_date |-> IF table[i].status = "Completed"
                               THEN {now} ELSE {}]
        : i \in Described(table)}

\* ActionPlanView.save; table holds the description, the status and the
\* priority of each table row
ActionPlanSave(table) ==
    /\ ~failed
    /\ ui.page = "plan"
    /\ IF Len(table) = 0 THEN SaveRejected("plan", <<>>)
       ELSE /\ ui.view["plan"].artifact = NoId => nextId["plan"] < MaxRows
            /\ nextId["task"] + Cardinality(Described(table))
                  <= MaxTasks * MaxRows
            /\ db' = Replaced(ArtifactSaved("plan", [problem_statement |-> ""]),
                              "task", ArtifactId("plan"),
                              NewTasks(ArtifactId("plan"), table))
            /\ nextId' = [nextId EXCEPT
                            !["plan"] = IF ui.view["plan"].artifact = NoId
                                        THEN @ + 1 ELSE @,
                            !["task"] = @ + Cardinality(Described(table))]
            /\ SaveDoneWith("plan", PyList(table))

\* the ways the replacement of the children old by the children fresh (ids
\* after first) can stop at a repository call that fails: at a delete, when
\* some of the old children are gone (the rows of the relationship come in
\* no stated order), or at a create, when all the old ones are gone and the
\* fresh ones before it are made
Stops(old, fresh, first) ==
    {[gone |-> g, made |-> {}] : g \in (SUBSET old) \ {old}}
    \cup {[gone |-> old, made |-> {c \in fresh : c.id <= first + n}]
             : n \in 0..Cardinality(fresh) - 1}

\* faulty variant of StoppedAt (the save is one transaction, rolled back)
StoppedAtomic(d, k, stop) == d

\* the rows when the replacement of children stopped at stop: every call
\* before the failing one has committed, and the handler of the exception
\* only shows a message
StoppedAt(d, k, stop) == [d EXCEPT ![k] = (@ \ stop.gone) \cup stop.made]

\* what a save that stopped leaves behind apart from the rows: the view
\* holds the artifact it wrote, and the session refuses further calls
SaveStopped(k, child, stop) ==
    /\ ret' = [Raised("save", k, ArtifactId(k)) EXCEPT
                  !.filters = [deleted |-> Cardinality(stop.gone),
                               created |-> Cardinality(stop.made)]]
    /\ ui' = [ui EXCEPT !.view[k].artifact = ArtifactId(k)]
    /\ nextId' = [nextId EXCEPT
                    ![k] = IF ui.view[k].artifact = NoId THEN @ + 1 ELSE @,
                    ![child] = @ + Cardinality(stop.made)]
    /\ mem' = EmptyTables
    /\ failed' = TRUE
    /\ UNCHANGED now

\* IshikawaView.save with a store failure at one of the calls on the
\* categories
IshikawaSaveFails(text) ==
    /\ ~failed
    /\ ui.page = "ishikawa"
    /\ Strip(text) # <<>>
    /\ ui.view["ishikawa"].artifact = NoId
          => nextId["ishikawa"] < MaxArtifacts
    /\ nextId["category"] + NumCategories <= NumCategories * MaxSaves
    /\ \E stop \in Stops(Owned(db, "category", ArtifactId("ishikawa")),
                          NewCategories(ArtifactId("ishikawa")),
                          nextId["category"]) :
          /\ db' = StoppedAt(ArtifactSaved("ishikawa",
                                           [problem_statement |-> Strip(text)]),
                             "category", stop)
          /\ SaveStopped("ishikawa", "category", stop)

\* ActionPlanView.save with a store failure at one of the calls on the
\* tasks
ActionPlanSaveFails(table) ==
    /\ ~failed
    /\ ui.page = "plan"
    /\ Len(table) # 0
    /\ ui.view["plan"].artifact = NoId => nextId["plan"] < MaxRows
    /\ nextId["task"] + Cardinality(Described(table)) <= MaxTasks * MaxRows
    /\ \E stop \in Stops(Owned(db, "task", ArtifactId("plan")),
                          NewTasks(ArtifactId("plan"), table),
                          nextId["task"]) :
          /\ db' = StoppedAt(ArtifactSaved("plan", [problem_statement |-> ""]),
                             "task", stop)
          /\ SaveStopped("plan", "task", stop)

\* the application is started again: a new session, the dashboard with the
\* stored projects, views without project
Restart ==
    /\ failed
    /\ failed' = FALSE
    /\ mem' = EmptyTables
    /\ ui' = [UiInit EXCEPT !.cards = Ids(db["project"])]
    /\ ret' = NoRet
    /\ UNCHANGED <<db, nextId, now>>

\* what project.calculate_progress() leaves in memory when it is called with
\* the rows d stored and the objects m modified; a project that was deleted
\* is an object outside the session, and nothing it is given is ever written
ProgressWrittenIn(d, m, project_id) ==
    LET kids(k) == {r \in CurOf(d, m, k) : r.project_id = project_id}
        all == [k \in ArtifactKinds |-> kids(k)]
        total == Cardinality(all["five_whys"]) + Cardinality(all["ishikawa"])
                 + Cardinality(all["plan"])
        completed ==
            Cardinality({r \in all["five_whys"] : r.is_completed})
            + Cardinality({r \in all["ishikawa"] : r.is_completed})
            + Cardinality({r \in all["plan"] : r.is_completed})
        others == {x \in m["project"] : x.id # project_id}
        row == [RowOf(CurOf(d, m, "project"), project_id)
                   EXCEPT !.progress_percentage = PercentOf(completed, total)]
    IN IF project_id \notin Ids(d["project"]) \/ total = 0 THEN m
       ELSE [m EXCEPT !["project"] =
                IF row \in d["project"] THEN others ELSE others \cup {row}]

\* a view that is to export or complete its artifact refuses an artifact
\* that was never saved: none is held, or the one held has no id
ChecksNothing(k) == FALSE

Unsaved(k) == ui.view[k].artifact = NoId

\* FiveWhysView, IshikawaView and ActionPlanView.mark_complete; yes is the
\* answer to the question the view asks before it writes
MarkComplete(k, yes) ==
    /\ ui.page = k
    /\ IF Unsaved(k)
       THEN /\ ret' = Returned("not_saved", k, NoId, FALSE, {})
            /\ UNCHANGED <<db, mem, nextId, now, failed, ui>>
       ELSE IF ~yes
       THEN /\ ret' = Returned("declined", k, ui.view[k].artifact, FALSE, {})
            /\ UNCHANGED <<db, mem, nextId, now, failed, ui>>
       ELSE /\ ~failed
            /\ db' = AfterUpdate(k, [id |-> ui.view[k].artifact,
                                     is_completed |-> TRUE])
            /\ mem' = ProgressWrittenIn(db', EmptyTables, ui.view[k].project)
            /\ ret' = Returned("mark_complete", k, ui.view[k].artifact, TRUE, {})
            /\ ui' = [ui EXCEPT !.completed_shown[k] = TRUE]
            /\ UNCHANGED <<nextId, now, failed>>

\* FiveWhysView.export_pdf, IshikawaView.export_pdf and
\* ActionPlanView.export_excel: the artifact is read (an ActionPlan by
\* get_by_id) and a file is written; nothing is stored
Export(k) ==
    /\ ui.page = k
    /\ Unsaved(k) \/ ~failed
    /\ ret' = Returned("export", k, ui.view[k].artifact, ~Unsaved(k), {})
    /\ db' = AfterQuery(db, mem, now)
    /\ UNCHANGED <<mem, nextId, now, failed, ui>>

(***************************************************************************)
(* The project wizard: five steps, the name on the first.  The wizard      *)
(* keeps its step, the text of the name field and the data it collected    *)
(* (a record that has a name once the first step was passed).              *)
(***************************************************************************)
TotalSteps == 5

WizardInit == [step |-> 0, name_input |-> <<>>, data |-> <<>>]

\* MainWindow.show_project_wizard: the wizard is shown as it was left
ShowProjectWizard ==
    /\ ui.page # "wizard"
    /\ ui' = [ui EXCEPT !.page = "wizard"]
    /\ ret' = NoRet
    /\ UNCHANGED <<db, mem, nextId, now, failed>>

\* the user edits the name field, which the first step shows
WizardType(text) ==
    /\ ui.page = "wizard"
    /\ ui.wizard.step = 0
    /\ ui' = [ui EXCEPT !.wizard.name_input = text]
    /\ ret' = NoRet
    /\ UNCHANGED <<db, mem, nextId, now, failed>>

\* ProjectWizard._validate_step; dates_ok: the dates of the second step are
\* in order
ValidateStep(dates_ok) ==
    IF ui.wizard.step = 0 THEN Strip(ui.wizard.name_input) # <<>>
    ELSE IF ui.wizard.step = 1 THEN dates_ok
    ELSE TRUE

\* ProjectWizard._on_next (the button is shown on all steps but the last)
WizardNext(dates_ok) ==
    /\ ui.page = "wizard"
    /\ ui.wizard.step < TotalSteps - 1
    /\ IF ~ValidateStep(dates_ok)
       THEN /\ ret' = [Returned("warning", "project", NoId, FALSE, {})
                         EXCEPT !.out = PyStr(ui.wizard.name_input)]
            /\ UNCHANGED ui
       ELSE /\ ui' = [ui EXCEPT
                        !.wizard.step = @ + 1,
                        !.wizard.data =
                            IF ui.wizard.step = 0
                            THEN [name |-> Strip(ui.wizard.name_input)]
                            ELSE @]
            /\ ret' = NoRet
    /\ UNCHANGED <<db, mem, nextId, now, failed>>

\* ProjectWizard._on_previous
WizardPrevious ==
    /\ ui.page = "wizard"
    /\ ui.wizard.step > 0
    /\ ui' = [ui EXCEPT !.wizard.step = @ - 1]
    /\ ret' = NoRet
    /\ UNCHANGED <<db, mem, nextId, now, failed>>

\* ProjectWizard._on_finish (the button is shown on the last step):
\* repository.create, then _reset and MainWindow._on_project_created, which
\* reloads the dashboard and shows it
WizardFinish ==
    /\ ~failed
    /\ ui.page = "wizard"
    /\ ui.wizard.step = TotalSteps - 1
    /\ nextId["project"] < MaxRows
    /\ IF "name" \notin DOMAIN ui.wizard.data
       THEN /\ ret' = Returned("critical", "project", NoId, FALSE, {})
            /\ UNCHANGED <<db, mem, nextId, ui>>
       ELSE /\ db' = AfterCreate("project",
                        InsertedRow("project",
                                    [name |-> ui.wizard.data.name,
                                     status |-> "In Progress",
                                     progress_percentage |-> WizardProgress],
                                    NewId("project"), now, now))
            /\ mem' = EmptyTables
            /\ nextId' = [nextId EXCEPT !["project"] = @ + 1]
            /\ ret' = Returned("create", "project", NewId("project"), TRUE, {})
            /\ ui' = [ui EXCEPT !.wizard = WizardInit,
                                !.current_project = NewId("project"),
                                !.cards = Ids(db'["project"]),
                                !.page = "dashboard"]
    /\ UNCHANGED <<now, failed>>

\* ProjectWizard._on_cancel, confirmed: _reset, and the dashboard is shown
WizardCancel ==
    /\ ui.page = "wizard"
    /\ ui' = [ui EXCEPT !.wizard = WizardInit, !.page = "dashboard"]
    /\ ret' = NoRet
    /\ UNCHANGED <<db, mem, nextId, now, failed>>

(***************************************************************************)
(* Specification of the generic repository, bound to FiveWhys (as the      *)
(* Five Whys view binds it), over two projects created by the wizard.      *)
(* The callers' inputs are drawn from the sets below.                      *)
(***************************************************************************)
RepoKind == "five_whys"

ProjectRefs == {1, 2}

\* an id a caller writes on an entity itself; uuid4 never generates it
ExternalIds == {-1}

\* FiveWhys(project_id=..., problem_statement=...), is_completed set or not
NewEntities ==
    [project_id : ProjectRefs, problem_statement : {"a"}]
    \cup [project_id : {1}, problem_statement : {"a"}, is_completed : {TRUE}]

\* the attributes a caller sets on a loaded object before update(obj)
Changes ==
    [is_completed : BOOLEAN] \cup [problem_statement : {"b"}]

\* an object outside the session that carries an id
Detached(k) ==
    [id : ExternalIds \cup 1..nextId[k], project_id : {2},
     problem_statement : {"b"}]

\* keyword arguments of search: columns, a key that is no attribute at
\* all, and the name of a method of the class
FilterSets ==
    {<<>>}
    \cup [project_id : ProjectRefs]
    \cup [project_id : {1}, is_completed : {TRUE}]
    \cup [bogus : {1}]
    \cup [project_id : {1}, bogus : {1}]
    \cup [to_dict : {1}]

TwoProjects ==
    {ProjectRow(1, 0, 0, "In Progress", WizardProgress),
     ProjectRow(2, 0, 0, "In Progress", WizardProgress)}

InitRepo ==
    /\ db = [EmptyTables EXCEPT !["project"] = TwoProjects]
    /\ nextId = [k \in Kinds |-> Cardinality(db[k])]
    /\ mem = EmptyTables
    /\ now = 0
    /\ failed = FALSE
    /\ ret = NoRet
    /\ ui = UiInit

\* the writes of the repository, all within one reading of the clock
RepoWrites ==
    \/ \E e \in NewEntities : RepoCreate(RepoKind, e, now)
    \/ \E id \in Ids(db[RepoKind]), c \in Changes :
          RepoUpdate(RepoKind, [id |-> id] @@ c)
    \/ \E e \in Detached(RepoKind) : RepoUpdate(RepoKind, e)
    \/ \E id \in ExternalIds \cup 1..MaxRows : RepoDelete(RepoKind, id)

RepoReads ==
    \/ RepoGetAll(RepoKind)
    \/ \E id \in ExternalIds \cup 1..MaxRows : RepoGetById(RepoKind, id)
    \/ \E f \in FilterSets : RepoSearch(RepoKind, f)

NextRepo == RepoWrites \/ RepoReads

SpecRepo == InitRepo /\ [][NextRepo]_vars

(***************************************************************************)
(* Specification of the repository with store failures.                    *)
(***************************************************************************)
RepoFailures ==
    \/ \E e \in NewEntities, at \in CreateStages :
          RepoCreateFails(RepoKind, e, at)
    \/ \E id \in Ids(db[RepoKind]), c \in Changes :
          RepoUpdateFails(RepoKind, [id |-> id] @@ c)
    \/ \E id \in ExternalIds \cup 1..MaxRows : RepoDeleteFails(RepoKind, id)
    \/ \E op \in {"get_all", "create", "update", "delete"} :
          RepoRefused(op, RepoKind)

NextFail == RepoWrites \/ RepoFailures

SpecFail == InitRepo /\ [][NextFail]_vars

(***************************************************************************)
(* Specification of the timestamps: the writes of the repository and the   *)
(* progress aggregator (whose write waits in the session for the next      *)
(* commit) while the clock moves on.                                       *)
(***************************************************************************)
\* the FiveWhys of the first project, created once by its view and marked
\* complete or reopened afterwards, and one written under a caller's id
TimedEntity == [project_id |-> 1, problem_statement |-> "a"]

TimedChanges == [is_completed : BOOLEAN]

NextTime ==
    \/ Tick
    \/ \E later \in {now, now + 1} :
          /\ db[RepoKind] = {}
          /\ RepoCreate(RepoKind, TimedEntity, later)
    \/ \E id \in Ids(db[RepoKind]), c \in TimedChanges :
          RepoUpdate(RepoKind, [id |-> id] @@ c)
    \/ \E id \in ExternalIds :
          RepoUpdate(RepoKind, [id |-> id] @@ TimedEntity)
    \/ CalculateProgress(TimedEntity.project_id)

SpecTime == InitRepo /\ [][NextTime]_vars

(***************************************************************************)
(* Specification of the application: two projects created by the wizard,  *)
(* listed on the dashboard; the user selects and deletes projects, moves   *)
(* between the tools and saves what the forms hold.                        *)
(***************************************************************************)
\* what the user may have typed as problem statement (blanks around it or
\* nothing but blanks), and into the task table, when a save is triggered
Problems == {<<>>, <<" ">>, <<"a">>, <<" ", "a", " ">>}

TaskTables ==
    UNION {[1..n -> [description : {<<>>, <<"t">>}, status : {"Not Started"},
                     priority : {"Medium"}]] : n \in 0..MaxTasks}

Init ==
    /\ db = [EmptyTables EXCEPT !["project"] = TwoProjects]
    /\ nextId = [k \in Kinds |-> Cardinality(db[k])]
    /\ mem = EmptyTables
    /\ now = 0
    /\ failed = FALSE
    /\ ret = NoRet
    /\ ui = [UiInit EXCEPT !.cards = Ids(TwoProjects)]

Next ==
    \/ ShowDashboard
    \/ \E p \in ProjectRefs : SelectProject(p)
    \/ \E k \in ArtifactKinds : Navigate(k)
    \/ \E p \in ProjectRefs : DeleteProject(p)
    \/ \E text \in Problems : FiveWhysSave(text)
    \/ \E text \in Problems : IshikawaSave(text)
    \/ \E table \in TaskTables : ActionPlanSave(table)

Spec == Init /\ [][Next]_vars

(***************************************************************************)
(* Specification of the completion of artifacts: the application with one  *)
(* project, whose tools the user saves and marks complete.                 *)
(***************************************************************************)
InitComplete ==
    /\ db = [EmptyTables EXCEPT
               !["project"] = {ProjectRow(1, 0, 0, "In Progress", WizardProgress)}]
    /\ nextId = [k \in Kinds |-> Cardinality(db[k])]
    /\ mem = EmptyTables
    /\ now = 0
    /\ failed = FALSE
    /\ ret = NoRet
    /\ ui = [UiInit EXCEPT !.cards = {1}]

NextComplete ==
    \/ ShowDashboard
    \/ \E p \in ProjectRefs : SelectProject(p)
    \/ \E k \in ArtifactKinds : Navigate(k)
    \/ \E p \in ProjectRefs : DeleteProject(p)
    \/ \E text \in Problems : FiveWhysSave(text)
    \/ \E text \in Problems : IshikawaSave(text)
    \/ \E table \in TaskTables : ActionPlanSave(table)
    \/ \E k \in ArtifactKinds, yes \in BOOLEAN : MarkComplete(k, yes)
    \/ \E k \in ArtifactKinds : Export(k)

SpecComplete == InitComplete /\ [][NextComplete]_vars

(***************************************************************************)
(* Specification of the forms: the application starts without projects,    *)
(* the user creates them with the wizard and saves Five Whys and Ishikawa  *)
(* forms for them.                                                         *)
(***************************************************************************)
InitForms ==
    /\ db = EmptyTables
    /\ nextId = [k \in Kinds |-> 0]
    /\ mem = EmptyTables
    /\ now = 0
    /\ failed = FALSE
    /\ ret = NoRet
    /\ ui = UiInit @@ [wizard |-> WizardInit]

NextForms ==
    \/ ShowProjectWizard
    \/ \E text \in Problems : WizardType(text)
    \/ \E dates_ok \in BOOLEAN : WizardNext(dates_ok)
    \/ WizardPrevious
    \/ WizardFinish
    \/ WizardCancel
    \/ ShowDashboard
    \/ \E p \in ProjectRefs : SelectProject(p)
    \/ \E k \in ArtifactKinds : Navigate(k)
    \/ \E text \in Problems : FiveWhysSave(text)
    \/ \E text \in Problems : IshikawaSave(text)

SpecForms == InitForms /\ [][NextForms]_vars

(***************************************************************************)
(* Specification of the project repository: projects are created with a    *)
(* name and a status, their status is changed, they are deleted, and the   *)
(* queries are called in between.                                          *)
(***************************************************************************)
ProjectNames == {<<"a">>, <<"a", "B">>}

NewProjects == [name : ProjectNames, status : {"In Progress", "Completed"}]

\* what a caller searches for: letters of either case and the characters
\* LIKE gives a meaning to
Terms == UNION {[1..n -> {"a", "b", "_", "%"}] : n \in 0..MaxTerm}

\* the limits a caller passes: none of the rows, some, more than there are,
\* and a negative number
Limits == (-1)..(MaxRows + 1)

InitProjects ==
    /\ db = EmptyTables
    /\ nextId = [k \in Kinds |-> 0]
    /\ mem = EmptyTables
    /\ now = 0
    /\ failed = FALSE
    /\ ret = NoRet
    /\ ui = UiInit

NextProjects ==
    \/ \E e \in NewProjects, later \in 0..MaxTime :
          RepoCreate("project", e, later)
    \/ \E id \in Ids(db["project"]) :
          RepoUpdate("project", [id |-> id, status |-> "On Hold"])
    \/ \E id \in Ids(db["project"]) : RepoDelete("project", id)
    \/ Tick
    \/ \E status \in ProjectStatus : GetByStatus(status)
    \/ GetCompletedProjects
    \/ GetInProgressProjects
    \/ \E name \in Terms : SearchByName(name)
    \/ \E limit \in Limits : GetRecentProjects(limit)

SpecProjects == InitProjects /\ [][NextProjects]_vars


(***************************************************************************)
(* Specification of the reads: a project with a FiveWhys next to a project *)
(* without tools.  calculate_progress leaves a project modified in memory, *)
(* an update of the FiveWhys commits, and in between the repositories are  *)
(* queried and the views opened and exported.                              *)
(***************************************************************************)
InitReads ==
    \E done \in BOOLEAN :
        /\ db = [EmptyTables EXCEPT
                   !["project"] =
                       {ProjectRow(1, 0, 0, "In Progress", WizardProgress)
                            @@ [name |-> <<"a">>],
                        ProjectRow(2, 0, 0, "Completed", WizardProgress)
                            @@ [name |-> <<"a", "B">>]},
                   !["five_whys"] = {ArtifactRow(1, 0, 0, 1, <<"a">>, done)}]
        /\ nextId = [k \in Kinds |-> Cardinality(db[k])]
        /\ mem = EmptyTables
        /\ now = 0
        /\ failed = FALSE
        /\ ret = NoRet
        /\ ui = [UiInit EXCEPT !.cards = {1, 2}]

NextReads ==
    \/ \E p \in ProjectRefs : CalculateProgress(p)
    \/ \E done \in BOOLEAN :
          RepoUpdate("five_whys", [id |-> 1, is_completed |-> done])
    \/ ShowDashboard
    \/ \E p \in ProjectRefs : SelectProject(p)
    \/ \E k \in ArtifactKinds : Navigate(k)
    \/ \E k \in ArtifactKinds : Export(k)
    \/ \E k \in {"project", "five_whys"} : RepoGetAll(k)
    \/ \E id \in ProjectRefs : RepoGetById("project", id)
    \/ \E p \in ProjectRefs : RepoSearch("five_whys", [project_id |-> p])
    \/ \E id \in ProjectRefs : GetByIdWithRelations(id)
    \/ \E status \in ProjectStatus : GetByStatus(status)
    \/ GetCompletedProjects
    \/ GetInProgressProjects
    \/ \E name \in {<<>>, <<"b">>} : SearchByName(name)
    \/ \E limit \in {0, 1} : GetRecentProjects(limit)

SpecReads == InitReads /\ [][NextReads]_vars


(***************************************************************************)
(* Specification of the models: objects are constructed with some of their *)
(* attributes given, read, and then stored or dropped.                     *)
(***************************************************************************)
\* the keyword arguments of the constructors
GivenProjects ==
    {[name |-> <<"a">>],
     [name |-> <<"a">>, status |-> "Completed"],
     [name |-> <<"a">>, progress_percentage |-> SeedProgress],
     [name |-> <<"a">>, status |-> "In Progress",
      progress_percentage |-> WizardProgress]}

GivenArtifacts ==
    {[project_id |-> 1, problem_statement |-> <<"a">>],
     [project_id |-> 1, problem_statement |-> <<"a">>, is_completed |-> TRUE]}

Given(k) == IF k = "project" THEN GivenProjects ELSE GivenArtifacts

InitModels ==
    /\ db = EmptyTables
    /\ nextId = [k \in Kinds |-> 0]
    /\ mem = EmptyTables
    /\ now = 0
    /\ failed = FALSE
    /\ ret = NoRet
    /\ ui = UiInit

NextModels ==
    \/ \E k \in {"project"} \cup ArtifactKinds :
          \E given \in Given(k) : Construct(k, given)
    \/ CreateConstructed
    \/ \E id \in 1..MaxRows : RepoGetById("project", id)

SpecModels == InitModels /\ [][NextModels]_vars


(***************************************************************************)
(* Specification of the saves that stop: the application with one project, *)
(* whose Ishikawa diagram and action plan are saved; a save may fail at a  *)
(* call on the children, after which the application is started again.     *)
(***************************************************************************)
NextSaves ==
    \/ ShowDashboard
    \/ \E p \in ProjectRefs : SelectProject(p)
    \/ \E k \in ArtifactKinds : Navigate(k)
    \/ IshikawaSave(<<"a">>)
    \/ \E table \in TaskTables : ActionPlanSave(table)
    \/ IshikawaSaveFails(<<"a">>)
    \/ \E table \in TaskTables : ActionPlanSaveFails(table)
    \/ Restart

SpecSaves == InitComplete /\ [][NextSaves]_vars


(***************************************************************************)
(* Specification of the tasks: the action plan of one project is saved on  *)
(* different days, with the tasks the user has in the table.               *)
(***************************************************************************)
TaskRows ==
    [description : {<<" ">>, <<"t", " ">>}, status : {"Not Started", "Completed"},
     priority : {"Medium", "High"}]

DatedTables == UNION {[1..n -> TaskRows] : n \in 0..MaxTasks}

NextTasks ==
    \/ ShowDashboard
    \/ \E p \in ProjectRefs : SelectProject(p)
    \/ \E k \in ArtifactKinds : Navigate(k)
    \/ \E table \in DatedTables : ActionPlanSave(table)
    \/ Tick

SpecTasks == InitComplete /\ [][NextTasks]_vars


(***************************************************************************)
(* Specification of the Five Whys form: two projects with a saved FiveWhys *)
(* each, the first with one additional why; the user opens the view on     *)
(* them, adds and removes why inputs, and saves.                           *)
(***************************************************************************)
InitWhyForm ==
    /\ db = [EmptyTables EXCEPT
               !["project"] = TwoProjects,
               !["five_whys"] =
                   {ArtifactRow(1, 0, 0, 1, <<"a">>, FALSE)
                        @@ [additional_whys |->
                                SetList(PyList(<<PyStr(<<"a">>)>>))],
                    ArtifactRow(2, 0, 0, 2, <<"a">>, FALSE)}]
    /\ nextId = [k \in Kinds |-> Cardinality(db[k])]
    /\ mem = EmptyTables
    /\ now = 0
    /\ failed = FALSE
    /\ ret = NoRet
    /\ ui = [UiInit EXCEPT !.cards = Ids(TwoProjects)]

NextWhyForm ==
    \/ ShowDashboard
    \/ \E p \in ProjectRefs : SelectProject(p)
    \/ \E k \in ArtifactKinds : Navigate(k)
    \/ \E text \in {<<"5">>, <<" ">>} : AddWhy(text)
    \/ RemoveLastWhy
    \/ \E text \in {<<>>, <<"a">>} : FiveWhysSave(text)

SpecWhyForm == InitWhyForm /\ [][NextWhyForm]_vars


(***************************************************************************)
(* Specification of the artifacts: two projects, on which the three tool   *)
(* views are opened, saved and marked complete.                            *)
(***************************************************************************)
NextArtifacts ==
    \/ ShowDashboard
    \/ \E p \in ProjectRefs : SelectProject(p)
    \/ \E k \in ArtifactKinds : Navigate(k)
    \/ FiveWhysSave(<<"a">>)
    \/ IshikawaSave(<<"a">>)
    \/ \E table \in {t \in TaskTables : Len(t) > 0 /\ Described(t) = {}} :
          ActionPlanSave(table)
    \/ \E k \in ArtifactKinds : MarkComplete(k, TRUE)

SpecArtifacts == Init /\ [][NextArtifacts]_vars

(***************************************************************************)
(* Specification of the progress aggregator: a project with a cached       *)
(* progress (0 from the wizard, 35 as the first seeded sample project) and *)
(* any number of children up to the bounds, the first ones completed, next *)
(* to a second project that has a completed FiveWhys of its own.           *)
(***************************************************************************)
InitProgress ==
    \E nf \in 0..MaxFiveWhys, ni \in 0..MaxOtherKind, np \in 0..MaxOtherKind :
    \E cf \in 0..nf, ci \in 0..ni, cp \in 0..np :
    \E cached \in {WizardProgress, SeedProgress} :
        /\ db = [EmptyTables EXCEPT
                   !["project"] = {ProjectRow(1, 0, 0, "In Progress", cached),
                                   ProjectRow(2, 0, 0, "In Progress", WizardProgress)},
                   !["five_whys"] =
                       {ArtifactRow(i, 0, 0, 1, "a", i <= cf) : i \in 1..nf}
                       \cup {ArtifactRow(nf + 1, 0, 0, 2, "a", TRUE)},
                   !["ishikawa"] =
                       {ArtifactRow(i, 0, 0, 1, "a", i <= ci) : i \in 1..ni},
                   !["plan"] =
                       {ArtifactRow(i, 0, 0, 1, "", i <= cp) : i \in 1..np}]
        /\ nextId = [k \in Kinds |-> Cardinality(db[k])]
        /\ mem = EmptyTables
        /\ now = 0
        /\ failed = FALSE
        /\ ret = NoRet
        /\ ui = [UiInit EXCEPT !.current_project = 1]

\* the caller is a tool view, on the project it shows
NextProgress == CalculateProgress(ui.current_project)

SpecProgress == InitProgress /\ [][NextProgress]_vars

(***************************************************************************)
(* Calls of the model methods for serialised lists on a loaded object      *)
(***************************************************************************)
\* obj.get_team_members(), .get_additional_whys(), .get_causes_list()
CallGetList(k, id) ==
    /\ id \in Ids(Cur(k))
    /\ ret' = [Returned("get_list", k, id, TRUE, {}) EXCEPT
                  !.out = GetList(RowOf(Cur(k), id)[BlobField(k)])]
    /\ UNCHANGED <<db, mem, nextId, now, failed, ui>>

\* obj.set_team_members(value), .set_additional_whys, .set_causes_list
CallSetList(k, id, value) ==
    /\ id \in Ids(Cur(k))
    /\ mem' = SetInMemory(mem, k, [RowOf(Cur(k), id) EXCEPT
                                      ![BlobField(k)] = SetList(value)])
    /\ ret' = [Returned("set_list", k, id, TRUE, {}) EXCEPT !.out = value]
    /\ UNCHANGED <<db, nextId, now, failed, ui>>

\* five_whys.get_all_whys()
CallGetAllWhys(id) ==
    /\ id \in Ids(Cur("five_whys"))
    /\ LET obj == RowOf(Cur("five_whys"), id)
           r == GetAllWhys(obj.whys, obj.additional_whys)
       IN ret' = [Returned("get_all_whys", "five_whys", id, TRUE, {}) EXCEPT
                     !.raised = r.raised, !.out = r.out]
    /\ UNCHANGED <<db, mem, nextId, now, failed, ui>>

(***************************************************************************)
(* Specifications of the serialised lists.  A loaded row carries, next to  *)
(* the columns of its kind, the column with the text (None when NULL) and, *)
(* for a FiveWhys, the five values of why_1..why_5.                        *)
(***************************************************************************)
Texts(n) == UNION {[1..m -> Chars] : m \in 0..n}

\* the row of kind k whose serialised column holds blob
BlobRow(k, blob) ==
    IF k = "project"
    THEN ProjectRow(1, 0, 0, "In Progress", WizardProgress)
            @@ [team_members |-> blob]
    ELSE IF k = "five_whys"
    THEN ArtifactRow(1, 0, 0, 1, "a", FALSE)
            @@ [whys |-> [i \in 1..NumWhys |-> PyNone], additional_whys |-> blob]
    ELSE ChildRow(1, 0, 0, 1, 0) @@ [causes |-> blob]

\* the state in which one row of kind k has been loaded
InitRow(k, row) ==
    /\ db = [EmptyTables EXCEPT ![k] = {row}]
    /\ nextId = [t \in Kinds |-> Cardinality(db[t])]
    /\ mem = EmptyTables
    /\ now = 0
    /\ failed = FALSE
    /\ ret = NoRet
    /\ ui = UiInit

\* what why_1..why_5 may hold, and the texts of additional_whys: NULL, any
\* short text, and what set_additional_whys stores for lists of these whys
WhyValues == {PyNone, PyStr(<<>>), PyStr(<<"a">>), PyStr(<<"5">>)}

WhyLists == UNION {[1..n -> {PyStr(<<"a">>), PyStr(<<"5">>)}] : n \in 0..MaxList}

WhyBlobs ==
    {PyNone} \cup {PyStr(t) : t \in Texts(MaxWhyBlob)}
    \cup {SetList(PyList(l)) : l \in WhyLists}

InitWhys ==
    \E slots \in [1..NumWhys -> WhyValues], blob \in WhyBlobs :
        InitRow("five_whys",
                [BlobRow("five_whys", blob) EXCEPT !.whys = slots])

NextWhys == \E id \in Ids(db["five_whys"]) : CallGetAllWhys(id)

SpecWhys == InitWhys /\ [][NextWhys]_vars

\* the strings a caller puts into a list: any characters, among them the
\* ones JSON gives a meaning to
StrChars == {"\"", "\\", ","}

StrValues == {PyStr(c) : c \in UNION {[1..n -> StrChars] : n \in 0..MaxStr}}

StrLists == UNION {[1..n -> StrValues] : n \in 0..MaxList}

\* an object with nothing stored, or with a list stored earlier
InitRoundTrip ==
    \E k \in BlobKinds,
       blob \in {PyNone, SetList(PyList(<<PyStr(<<"\\">>)>>))} :
        InitRow(k, BlobRow(k, blob))

\* the object is given one new list, and read at any time
NextRoundTrip ==
    \E k \in BlobKinds : \E id \in Ids(Cur(k)) :
        \/ \E l \in StrLists : mem[k] = {} /\ CallSetList(k, id, PyList(l))
        \/ CallGetList(k, id)

SpecRoundTrip == InitRoundTrip /\ [][NextRoundTrip]_vars

\* an object whose column holds anything a Text column can hold
InitBlobs ==
    \E k \in BlobKinds, blob \in {PyNone} \cup {PyStr(t) : t \in Texts(MaxBlob)} :
        InitRow(k, BlobRow(k, blob))

NextBlobs == \E k \in BlobKinds : \E id \in Ids(Cur(k)) : CallGetList(k, id)

SpecBlobs == InitBlobs /\ [][NextBlobs]_vars

\* C1: calculate_progress() returns 0 for a project without children and
\* floor(100 * completed / total) otherwise, for every combination of
\* children.
C1_ProgressIsFloor ==
    ret.op = "calculate_progress" =>
        ret.val = IF TotalCount(ret.id) = 0 THEN 0
                  ELSE (100 * CompletedCount(ret.id)) \div TotalCount(ret.id)

\* C2: whenever calculate_progress() returns v, the project's
\* progress_percentage equals v right afterwards, also for a project
\* without children whose cached progress_percentage was not zero.
C2_ProgressWrittenBack ==
    ret.op = "calculate_progress" =>
        RowOf(Cur("project"), ret.id).progress_percentage = ret.val


\* C5: search(filters) returns exactly the persisted rows for which every
\* filter whose key is a field equals the given value; any other key is
\* skipped, so a search with only such keys returns what get_all() returns.
C5_SearchSkipsNonFields ==
    ret.op = "search" =>
        ret.rows =
            {r \in GetAllResult(ret.kind) :
                \A key \in DOMAIN ret.filters \cap Columns(ret.kind) :
                    r[key] = ret.filters[key]}

\* C6: update(entity) is an upsert: without a row of the entity's id it
\* adds one row, with one it keeps the number of rows and leaves every
\* other row as it was; afterwards get_by_id(entity.id) returns a row
\* carrying the entity's field values.
C6_UpdateIsUpsert ==
    [][ret'.op = "update" =>
        LET k == ret'.kind
            e == CHOOSE x \in ret'.rows : TRUE
            found == GetByIdIn(db', mem', k, e.id)
        IN /\ Cardinality(found) = 1
           /\ \A r \in found : \A a \in DOMAIN e : r[a] = e[a]
           /\ IF e.id \in Ids(db[k])
              THEN /\ Cardinality(db'[k]) = Cardinality(db[k])
                   /\ {r \in db'[k] : r.id # e.id} = {r \in db[k] : r.id # e.id}
              ELSE db'[k] = db[k] \cup found
    ]_vars

\* an update of an id that had no row, in a table that holds another row
C6_Witness ==
    /\ ret.op = "update"
    /\ ret.id \in ExternalIds
    /\ \E r \in db[ret.kind] :
          /\ r.id = ret.id
          /\ r.created_at = now
          /\ "is_completed" \in DOMAIN r
    /\ Cardinality(db[ret.kind]) > 1

\* C7: delete(id) returns true exactly when a row of that id existed, and
\* then get_by_id(id) is absent; otherwise it returns false, raises nothing
\* and leaves every row as it was.
C7_DeleteReportsFound ==
    [][ret'.op = "delete" =>
        /\ ~ret'.raised
        /\ ret'.ok = (ret'.id \in Ids(db[ret'.kind]))
        /\ GetByIdIn(db', mem', ret'.kind, ret'.id) = {}
        /\ ~ret'.ok => db' = db
    ]_vars

\* a delete of an id that has no row, in a table that holds rows
C7_Witness ==
    /\ ret.op = "delete"
    /\ ~ret.ok
    /\ ret.id \in 1..MaxRows
    /\ db[ret.kind] # {}

\* C8: create(entity) for an entity without id returns it with a fresh id
\* and timestamps, get_by_id(returned.id) finds it, and the ids of the rows
\* of one table are pairwise distinct in every reachable state.
C8_CreateAssignsFreshId ==
    /\ \A k \in Kinds : Cardinality(Ids(db[k])) = Cardinality(db[k])
    /\ ret.op = "create" =>
          /\ Cardinality(ret.rows) = 1
          /\ \A r \in ret.rows :
                /\ r.id # NoId
                /\ {"created_at", "updated_at"} \subseteq DOMAIN r
                /\ GetByIdResult(ret.kind, r.id) = {r}

\* a create into a table that already holds a row
C8_Witness ==
    /\ ret.op = "create"
    /\ Cardinality(db[ret.kind]) = MaxRows
    /\ \E r \in db[ret.kind] : r.id # ret.id /\ r.id \in 1..MaxRows


\* C9: across create and update calls a persisted row keeps its id and its
\* created_at, and a write never moves updated_at back, neither before its
\* previous value nor before created_at.
C9_TimestampsMonotonic ==
    [][/\ ret'.op \in {"create", "update"} =>
             \A k \in Kinds : Ids(db[k]) \subseteq Ids(db'[k])
       /\ \A k \in Kinds : \A r \in db[k] : \A s \in db'[k] :
             s.id = r.id =>
                /\ s.created_at = r.created_at
                /\ s.updated_at >= r.updated_at
                /\ s.updated_at >= s.created_at
    ]_vars

\* an update written later than the row was created, flushed together with
\* a progress the aggregator had left in the session
C9_Witness ==
    /\ ret.op = "update"
    /\ \E r \in db[ret.kind] :
          /\ r.id = ret.id
          /\ r.id \in 1..MaxRows
          /\ r.created_at < r.updated_at
          /\ r.updated_at = now
    /\ \E p \in db["project"] :
          p.progress_percentage # WizardProgress /\ p.updated_at = now


\* C10: when create, update or delete fails with a store failure, the
\* failure reaches the caller and the persisted rows after the call are
\* those before it.
C10_FailureLeavesStore ==
    [][ret'.raised => db' = db]_vars


\* C3: after delete(project_id) of an existing project, get_by_id finds
\* none of the FiveWhys, diagrams, plans, categories and tasks the project
\* owned, and the children of every other project are as before.
C3_DeleteCascades ==
    [][(ret'.op = "delete" /\ ret'.kind = "project" /\ ret'.ok) =>
        LET owned(k) == {r \in db[k] : r.project_id = ret'.id}
            inside(k, pk) == {c \in db[k] : c.parent_id \in Ids(owned(pk))}
        IN /\ \A k \in ArtifactKinds : \A r \in owned(k) :
                 GetByIdIn(db', mem', k, r.id) = {}
           /\ \A c \in inside("category", "ishikawa") :
                 GetByIdIn(db', mem', "category", c.id) = {}
           /\ \A t \in inside("task", "plan") :
                 GetByIdIn(db', mem', "task", t.id) = {}
           /\ \A k \in ArtifactKinds : db'[k] = db[k] \ owned(k)
           /\ db'["category"] = db["category"] \ inside("category", "ishikawa")
           /\ db'["task"] = db["task"] \ inside("task", "plan")
    ]_vars

\* a project was deleted whose diagram with its categories and whose plan
\* with its task are gone, while the FiveWhys of the other project is there
C3_Witness ==
    /\ ret.op = "delete" /\ ret.kind = "project" /\ ret.ok
    /\ nextId["ishikawa"] = 1 /\ db["ishikawa"] = {}
    /\ nextId["category"] = NumCategories /\ db["category"] = {}
    /\ nextId["plan"] = 1 /\ db["plan"] = {}
    /\ nextId["task"] = 1 /\ db["task"] = {}
    /\ \E r \in db["five_whys"] :
          r.project_id \in Ids(db["project"]) /\ r.project_id # ret.id

\* C4: every persisted FiveWhys, diagram and plan references a project in
\* the store, every category a diagram in the store and every task a plan
\* in the store, whatever was selected, deleted and saved.
C4_ChildrenHaveParents ==
    /\ \A k \in ArtifactKinds : \A r \in db[k] :
          r.project_id \in Ids(db["project"])
    /\ \A c \in db["category"] : c.parent_id \in Ids(db["ishikawa"])
    /\ \A t \in db["task"] : t.parent_id \in Ids(db["plan"])


\* C11: get_all_whys() returns the non-empty values of why_1..why_5 in slot
\* order, followed by the stored additional whys in their order; with
\* additional_whys absent, empty or not the text of a list it returns the
\* fixed whys alone, and it never raises.
C11_AllWhysInOrder ==
    ret.op = "get_all_whys" =>
        LET obj == RowOf(Cur("five_whys"), ret.id)
            isSet(v) == v.type = "str" /\ v.chars # <<>>
            stored == IF isSet(obj.additional_whys)
                      THEN Loads(obj.additional_whys.chars)
                      ELSE JSONDecodeError
            extra == IF stored.ok /\ stored.val.type = "list"
                     THEN stored.val.items ELSE <<>>
        IN /\ ~ret.raised
           /\ ret.out = PyList(SelectSeq(obj.whys, isSet) \o extra)

\* C12: for every list L of strings, the getter called after the setter was
\* given L returns L, the same elements in the same order, for team_members,
\* additional_whys and causes.
C12_RoundTrip ==
    [][(ret.op = "set_list" /\ ret'.op = "get_list") => ret'.out = ret.out]_vars

C12_Witness ==
    /\ ret.op = "get_list"
    /\ ret.kind = "category"
    /\ mem["category"] # {}
    /\ ret.out = PyList(<<PyStr(<<"\"", ",">>), PyStr(<<"\\", "\"">>)>>)

\* C13: whatever the column of team_members, additional_whys or causes
\* holds, the getter raises nothing and returns a list, and the list is
\* empty when the column is NULL, empty or not JSON.
C13_GetterReturnsList ==
    ret.op = "get_list" =>
        LET blob == RowOf(Cur(ret.kind), ret.id)[BlobField(ret.kind)]
        IN /\ ~ret.raised
           /\ ret.out.type = "list"
           /\ (blob = PyNone \/ blob.chars = <<>> \/ ~Loads(blob.chars).ok)
                 => ret.out = PyList(<<>>)

\* C14: mark_complete on a view whose artifact is unsaved (none loaded, or
\* without id) writes nothing: the stored rows and the objects in memory
\* stay as they are, and the view answers with its warning, not an error.
C14_UnsavedMarkRejected ==
    [][\A k \in ArtifactKinds :
          (/\ ui.page = k
           /\ ui.view[k].artifact = NoId
           /\ ret'.kind = k
           /\ ret'.op \in {"not_saved", "declined", "mark_complete"})
          => (/\ db' = db
              /\ mem' = mem
              /\ ret'.op = "not_saved"
              /\ ~ret'.raised)]_vars

C14_Witness ==
    /\ ret.op = "not_saved"
    /\ ret.kind = "ishikawa"
    /\ ui.view["ishikawa"].project = 1
    /\ db["five_whys"] # {}

C17_RequiredFieldsChecked ==
    [][/\ (/\ ui.page = "wizard"
           /\ ui.wizard.step = 0
           /\ \A i \in 1..Len(ui.wizard.name_input) :
                 ui.wizard.name_input[i] = " ")
          => (ui'.wizard.step = 0 /\ db' = db /\ mem' = mem)
       /\ (/\ ret'.op \in {"warning", "create", "update"}
           /\ ret'.kind \in {"five_whys", "ishikawa"}
           /\ \A i \in 1..Len(ret'.out.chars) : ret'.out.chars[i] = " ")
          => (ret'.op = "warning" /\ db' = db /\ mem' = mem)
       /\ \A p \in db'["project"] : \E i \in 1..Len(p.name) : p.name[i] # " "
       /\ \A k \in {"five_whys", "ishikawa"} : \A r \in db'[k] :
             \E i \in 1..Len(r.problem_statement) :
                r.problem_statement[i] # " "]_vars

C17_Witness ==
    /\ ret.op = "warning"
    /\ ret.kind = "ishikawa"
    /\ ret.out = PyStr(<<" ">>)
    /\ \E p \in db["project"] : p.name = <<"a">>
    /\ \E r \in db["five_whys"] : r.problem_statement = <<"a">>
    /\ ui.wizard.step = 0
    /\ ui.wizard.name_input = <<" ">>

\* C18: a stored category, task or artifact leaves the store only in a step
\* in which the row that owns it (the diagram, the plan, the project) leaves
\* the store too; a save of the owner removes none.
C18_OnlyParentDeleteRemoves ==
    [][/\ \A c \in db["category"] :
             c.id \notin Ids(db'["category"])
                => c.parent_id \notin Ids(db'["ishikawa"])
       /\ \A c \in db["task"] :
             c.id \notin Ids(db'["task"]) => c.parent_id \notin Ids(db'["plan"])
       /\ \A k \in ArtifactKinds : \A r \in db[k] :
             r.id \notin Ids(db'[k])
                => r.project_id \notin Ids(db'["project"])]_vars

\* C19: get_by_status(s), get_completed_projects() and
\* get_in_progress_projects() return the stored projects whose status is the
\* one asked for, each of them once, the later updated_at first.
C19_StatusQueries ==
    ret.op \in {"get_by_status", "get_completed_projects",
                "get_in_progress_projects"} =>
        LET out == ret.out.items
            asked == IF ret.op = "get_completed_projects" THEN "Completed"
                     ELSE IF ret.op = "get_in_progress_projects"
                     THEN "In Progress"
                     ELSE ret.filters.status
        IN /\ {out[i].id : i \in DOMAIN out}
                = {r.id : r \in {x \in db["project"] : x.status = asked}}
           /\ \A i, j \in DOMAIN out : i # j => out[i].id # out[j].id
           /\ \A i, j \in DOMAIN out :
                 i < j => RowOf(db["project"], out[i].id).updated_at
                            >= RowOf(db["project"], out[j].id).updated_at

C19_Witness ==
    /\ ret.op = "get_by_status"
    /\ ret.filters.status = "On Hold"
    /\ Len(ret.out.items) = 2
    /\ ret.out.items[1].updated_at > ret.out.items[2].updated_at
    /\ ret.out.items[1].id < ret.out.items[2].id

\* C20: search_by_name(t) returns the stored projects whose name contains t
\* as a run of consecutive characters when the case of letters is ignored,
\* the later updated_at first, also when t contains % or _.
C20_SearchByNameIsSubstring ==
    ret.op = "search_by_name" =>
        LET out == ret.out.items
            t == ret.filters.name
            same(c, d) == c = d \/ {c, d} \in {{"a", "A"}, {"b", "B"}}
            contains(name) ==
                \E k \in 0..(Len(name) - Len(t)) :
                    \A i \in 1..Len(t) : same(name[k + i], t[i])
        IN /\ {out[i].id : i \in DOMAIN out}
                = {r.id : r \in {x \in db["project"] : contains(x.name)}}
           /\ \A i, j \in DOMAIN out : i # j => out[i].id # out[j].id
           /\ \A i, j \in DOMAIN out :
                 i < j => RowOf(db["project"], out[i].id).updated_at
                            >= RowOf(db["project"], out[j].id).updated_at

\* C21: get_recent_projects(n), n >= 0, returns min(n, number of stored
\* projects) projects, each once, the later updated_at first, and no stored
\* project left out has a later updated_at than one returned.
C21_RecentProjects ==
    (ret.op = "get_recent_projects" /\ ret.filters.limit >= 0) =>
        LET out == ret.out.items
            n == ret.filters.limit
            stored == db["project"]
            at(i) == RowOf(stored, out[i].id).updated_at
        IN /\ Len(out) = IF n < Cardinality(stored) THEN n
                         ELSE Cardinality(stored)
           /\ \A i \in DOMAIN out : out[i].id \in Ids(stored)
           /\ \A i, j \in DOMAIN out : i # j => out[i].id # out[j].id
           /\ \A i, j \in DOMAIN out : i < j => at(i) >= at(j)
           /\ \A r \in stored : \A i \in DOMAIN out :
                 r.id \notin {out[j].id : j \in DOMAIN out}
                    => r.updated_at <= at(i)

C21_Witness ==
    /\ ret.op = "get_recent_projects"
    /\ ret.filters.limit = 1
    /\ Len(ret.out.items) = 1
    /\ \E r \in db["project"] : r.updated_at < ret.out.items[1].updated_at


\* the operations of the repositories and of the views that only read
ReadOps ==
    {"get_all", "get_by_id", "search", "get_by_id_with_relations",
     "get_by_status", "get_completed_projects", "get_in_progress_projects",
     "search_by_name", "get_recent_projects", "export"}

\* C22: a read operation of a repository (get_all, get_by_id, search,
\* get_by_id_with_relations, get_by_status, get_completed_projects,
\* get_in_progress_projects, search_by_name, get_recent_projects) and an
\* export leave the stored rows as they were, also when objects in memory
\* carry modifications that were not saved.
C22_ReadsLeaveStore ==
    [][ret'.op \in ReadOps => db' = db]_vars

\* an export that succeeded, and a query of the projects, while the progress
\* of a project is modified in memory and not stored
C22_Witness ==
    /\ ret.op \in {"export", "get_recent_projects"}
    /\ ret.ok
    /\ \E m \in mem["project"] :
          RowOf(db["project"], m.id).progress_percentage
              # m.progress_percentage


\* C23: a Project constructed without status and without progress has
\* status In Progress and progress_percentage 0 as soon as it is constructed,
\* before it is stored, and a FiveWhys, IshikawaDiagram or ActionPlan
\* constructed without is_completed is not completed.
C23_DefaultsOnConstruction ==
    ret.op = "construct" =>
        \A obj \in ret.rows :
            /\ (/\ ret.kind = "project"
                /\ "status" \notin DOMAIN ret.filters
                /\ "progress_percentage" \notin DOMAIN ret.filters)
               => /\ "status" \in DOMAIN obj
                  /\ obj.status = "In Progress"
                  /\ "progress_percentage" \in DOMAIN obj
                  /\ obj.progress_percentage = 0
            /\ (/\ ret.kind \in ArtifactKinds
                /\ "is_completed" \notin DOMAIN ret.filters)
               => ~("is_completed" \in DOMAIN obj /\ obj.is_completed)


\* C24: the save of an Ishikawa diagram and of an action plan, which deletes
\* the children and creates them again, is not atomic: when it fails after
\* some deletions or creations, the store keeps the partial result (the old
\* children deleted so far are gone, the new ones created so far are there,
\* the others are not), and no later step brings a deleted child back.
C24_SaveNotAtomic ==
    [][/\ (ret'.op = "save" /\ ret'.raised) =>
            \E child \in {"category", "task"} :
                /\ child = (IF ret'.kind = "ishikawa" THEN "category" ELSE "task")
                /\ Cardinality(Owned(db, child, ret'.id)
                               \cap Owned(db', child, ret'.id))
                      = Cardinality(Owned(db, child, ret'.id))
                        - ret'.filters.deleted
                /\ Cardinality(Owned(db', child, ret'.id)
                               \ Owned(db, child, ret'.id))
                      = ret'.filters.created
                /\ ret'.filters.created > 0
                      => Owned(db, child, ret'.id)
                            \cap Owned(db', child, ret'.id) = {}
       /\ \A child \in {"category", "task"} :
             \A c \in db'[child] \ db[child] : c.id > nextId[child]
      ]_vars

\* a repeated Ishikawa save stopped after some of the six categories were
\* deleted, and the application was started again
C24_Witness ==
    /\ ~failed
    /\ ret = NoRet
    /\ \E g \in db["ishikawa"] :
          /\ Cardinality(Owned(db, "category", g.id)) \in 1..NumCategories - 1
          /\ \A c \in Owned(db, "category", g.id) : c.id <= NumCategories


\* C25: after every Ishikawa save that succeeded, the first and the repeated
\* ones, the diagram owns exactly six categories, one for each of the fixed
\* labels, and the category of the label at index i (from 0) has order i.
C25_SixCategories ==
    (ret.kind = "ishikawa" /\ ret.op \in {"create", "update"} /\ ~ret.raised)
        => LET own == Owned(db, "category", ret.id)
           IN /\ Cardinality(own) = Len(CATEGORIES)
              /\ \A i \in DOMAIN CATEGORIES :
                    \E c \in own :
                        /\ c.name = CATEGORIES[i]
                        /\ c.order = i - 1
                        /\ \A o \in own : o.name = c.name => o = c

\* a repeated save of a diagram: its categories are not those of the first
C25_Witness ==
    /\ ret.kind = "ishikawa"
    /\ ret.op = "update"
    /\ \E c \in Owned(db, "category", ret.id) : c.id > NumCategories
    /\ Cardinality(db["category"]) = NumCategories


\* C26: after every action-plan save that succeeded, the stored tasks of
\* the plan are exactly the table rows with a description, each with the
\* status and the priority of its row; a stored task has a completed_date
\* if and only if its status is Completed; and a task that was Completed
\* before the save keeps the completed_date it had.
C26_TasksAsTable ==
    [][(ret'.kind = "plan" /\ ret'.op \in {"create", "update"} /\ ~ret'.raised)
        => /\ \A i \in DOMAIN ret'.out.items :
                 Strip(ret'.out.items[i].description) # <<>>
                 => \E t \in Owned(db', "task", ret'.id) :
                       /\ t.order = i - 1
                       /\ t.task_description = Strip(ret'.out.items[i].description)
                       /\ t.status = ret'.out.items[i].status
                       /\ t.priority = ret'.out.items[i].priority
           /\ \A t \in Owned(db', "task", ret'.id) :
                 /\ t.order + 1 \in DOMAIN ret'.out.items
                 /\ Strip(ret'.out.items[t.order + 1].description) # <<>>
                 /\ \A u \in Owned(db', "task", ret'.id) :
                       u.order = t.order => u = t
                 /\ (t.completed_date # {}) <=> (t.status = "Completed")
           /\ \A t \in Owned(db', "task", ret'.id) :
                 \A old \in Owned(db, "task", ret'.id) :
                     (/\ old.order = t.order
                      /\ old.task_description = t.task_description
                      /\ old.status = "Completed"
                      /\ t.status = "Completed")
                     => t.completed_date = old.completed_date
      ]_vars


\* C27: after a mark_complete that succeeded on an artifact of project P,
\* the stored progress_percentage of P is floor(100 * completed / total)
\* over the stored artifacts of P, with no further save.
C27_ProgressStored ==
    ret.op = "mark_complete" =>
        \A p \in db["project"] :
            p.id = ui.view[ret.kind].project =>
                LET all == UNION {{<<k, r.id>> : r \in
                                     {a \in db[k] : a.project_id = p.id}}
                                  : k \in ArtifactKinds}
                    completed == UNION {{<<k, r.id>> : r \in
                                     {a \in db[k] : a.project_id = p.id
                                                     /\ a.is_completed}}
                                  : k \in ArtifactKinds}
                IN p.progress_percentage * Cardinality(all)
                      <= 100 * Cardinality(completed)
                   /\ 100 * Cardinality(completed)
                      < (p.progress_percentage + 1) * Cardinality(all)


\* C28: when the Five Whys view is opened on a project and saved with what
\* it loaded, no input having been changed, the stored FiveWhys stays as it
\* was: the additional whys stored are not repeated by opening the view
\* again, and those of one project do not get into the record of another.
C28_OpenAndSaveKeepsRecord ==
    [][(/\ ret.op = "search" /\ ret.kind = "five_whys"
        /\ ret'.op = "update" /\ ret'.kind = "five_whys"
        /\ \E r \in db["five_whys"] :
              r.id = ret'.id /\ ret'.out = PyStr(r.problem_statement))
       => \A r \in db["five_whys"] : \A q \in db'["five_whys"] :
             q.id = r.id =>
                 /\ q.problem_statement = r.problem_statement
                 /\ q.project_id = r.project_id
                 /\ q.is_completed = r.is_completed
                 /\ GetList(AdditionalOf(q)) = GetList(AdditionalOf(r))
      ]_vars


C30_IndicatorFollowsArtifact ==
    (ret.op = "search" /\ ret.kind \in ArtifactKinds /\ ui.page = ret.kind)
        => (ui.completed_shown[ret.kind]
            <=> \E r \in Cur(ret.kind) :
                    r.id = ui.view[ret.kind].artifact /\ r.is_completed)

====
